---- MODULE Spec2Model ----
(***************************************************************************)
(* Ledger engine of the Finance Tracker (src/src/lib/storage.ts, class     *)
(* LocalStorage) over the Dexie tables of src/unnamed/part_002.            *)
(*                                                                         *)
(* Encoding of JavaScript values:                                          *)
(*   - a missing, undefined or null id is 0 (all of them are falsy, as 0   *)
(*     is; Dexie's ++id keys start at 1);                                  *)
(*   - a missing, undefined or null string is "" (falsy as well);          *)
(*   - an amount or balance is the decimal string of an integer, stored as *)
(*     that integer: Number() and toString() are inverse on such strings.  *)
(*     The amount of a transfer request is an arbitrary string and is      *)
(*     modelled by what Number() makes of it (see Number);                 *)
(*   - date, note, counterparty and tags are carried through unchanged by  *)
(*     every operation and decide nothing: they are left out.              *)
(***************************************************************************)
EXTENDS Integers, Sequences, FiniteSets, TLC

VARIABLES settings, categories, accounts, transactions, transfers,
          nextId, err, opening, backup, calls, last

vars == <<settings, categories, accounts, transactions, transfers,
          nextId, err, opening, backup, calls, last>>

store == <<settings, categories, accounts, transactions, transfers, nextId>>

(***************************************************************************)
(* Bounds of the model.                                                    *)
(***************************************************************************)
MaxAmount == 2
MaxTx == 2
MaxPatchFields == 2
MaxOpening == 2
MaxTransfers == 2


(***************************************************************************)
(* null / undefined of an id field, and a field a patch does not carry.    *)
(***************************************************************************)
NoId == 0
Absent == -1
AbsentStr == "-"

Put(table, id, row) == (id :> row) @@ table
Drop(table, id) == [k \in DOMAIN table \ {id} |-> table[k]]
EmptyTable == [k \in {} |-> 0]

SetMin(S) == CHOOSE m \in S : \A n \in S : m <= n

(***************************************************************************)
(* initializeDatabase: the default settings, categories and account.       *)
(***************************************************************************)
(* "BDT" stands for the taka sign of the source.                           *)
DefaultSettings == [currencySymbol |-> "BDT", isSetupComplete |-> FALSE]

DefaultCategories ==
  << [name |-> "Food",         color |-> "#ff8a65", type |-> "expense"],
     [name |-> "Transport",    color |-> "#64b5f6", type |-> "expense"],
     [name |-> "Shopping",     color |-> "#ba68c8", type |-> "expense"],
     [name |-> "Bills",        color |-> "#90a4ae", type |-> "expense"],
     [name |-> "Health",       color |-> "#ef5350", type |-> "expense"],
     [name |-> "Grocery",      color |-> "#81c784", type |-> "expense"],
     [name |-> "Education",    color |-> "#5c6bc0", type |-> "expense"],
     [name |-> "Rentals",      color |-> "#ffb74d", type |-> "expense"],
     [name |-> "Medical",      color |-> "#ef5350", type |-> "expense"],
     [name |-> "Other",        color |-> "#9e9e9e", type |-> "expense"],
     [name |-> "Salary",       color |-> "#4db6ac", type |-> "income"],
     [name |-> "Business",     color |-> "#9575cd", type |-> "income"],
     [name |-> "Investment",   color |-> "#7986cb", type |-> "income"],
     [name |-> "Interest",     color |-> "#ffd54f", type |-> "income"],
     [name |-> "Extra",        color |-> "#4fc3f7", type |-> "income"],
     [name |-> "Other Income", color |-> "#90a4ae", type |-> "income"],
     [name |-> "Borrow",       color |-> "#f06292", type |-> "loan"],
     [name |-> "Lend",         color |-> "#4db6ac", type |-> "loan"] >>

DefaultAccount == [name |-> "Cash", type |-> "Cash", balance |-> 0]

(***************************************************************************)
(* getCategory / getAccount: Table.get(id); where('name').equals(n).first()*)
(* is the row of that name with the least primary key (0 when none).       *)
(***************************************************************************)
Has(table, id) == id \in DOMAIN table

FirstByName(table, name) ==
  LET ids == {k \in DOMAIN table : table[k].name = name}
  IN IF ids = {} THEN NoId ELSE SetMin(ids)

(***************************************************************************)
(* categoryName?.toLowerCase().includes('borrow'), over the names of the   *)
(* model.                                                                  *)
(***************************************************************************)
LowerIncludesBorrow(name) == name \in {"Borrow", "borrow", "Borrowed"}

(***************************************************************************)
(* Number(account.balance || 0).                                           *)
(***************************************************************************)
BalanceOf(account) == account.balance

getBalanceDelta_LoanAlwaysOut(tx) ==
  IF (IF tx.type = "" THEN "expense" ELSE tx.type) = "income" THEN tx.amount
  ELSE -tx.amount

getBalanceDelta(tx) ==
  IF (IF tx.type = "" THEN "expense" ELSE tx.type) = "income" THEN tx.amount
  ELSE IF (IF tx.type = "" THEN "expense" ELSE tx.type) = "expense" THEN -tx.amount
  ELSE IF tx.type = "loan"
       THEN (IF tx.loanType = "borrow" THEN tx.amount ELSE -tx.amount)
  ELSE -tx.amount

getSettlementDelta(tx) ==
  IF tx.type # "loan" \/ tx.loanStatus # "settled" THEN 0
  ELSE IF tx.loanType = "borrow" THEN -tx.amount ELSE tx.amount

(***************************************************************************)
(* The read-modify-write of one balance: getAccount(id), and when the      *)
(* account exists updateAccount(id, {balance: (Number(balance) + delta)    *)
(* .toString()}).                                                          *)
(***************************************************************************)
AddToBalance(accts, id, delta) ==
  IF id # NoId /\ Has(accts, id)
  THEN [accts EXCEPT ![id].balance = BalanceOf(accts[id]) + delta]
  ELSE accts

(***************************************************************************)
(* createTransaction, lines 130-170: the defaults and the resolution of    *)
(* the request before it is persisted.                                     *)
(***************************************************************************)
ResolveCategoryOnCreate(t, cats) ==
  IF t.categoryId # NoId /\ t.categoryName = "" /\ Has(cats, t.categoryId)
  THEN [t EXCEPT !.categoryName = cats[t.categoryId].name,
                 !.type = IF @ = "" THEN cats[t.categoryId].type ELSE @]
  ELSE t

DefaultType(t) == IF t.type = "" THEN [t EXCEPT !.type = "expense"] ELSE t

DefaultLoan_OnlyWhenCreated(t) ==
  IF t.type = "loan" /\ t.loanStatus = "settled" /\ t.loanSettlementAccountId = NoId
  THEN [t EXCEPT !.loanSettlementAccountId = t.accountId]
  ELSE t

DefaultLoan(t) ==
  LET t1 == IF t.type = "loan" /\ t.loanType = ""
            THEN [t EXCEPT !.loanType =
                    IF LowerIncludesBorrow(t.categoryName) THEN "borrow" ELSE "lend"]
            ELSE t
      t2 == IF t1.type = "loan" /\ t1.loanStatus = ""
            THEN [t1 EXCEPT !.loanStatus = "open"]
            ELSE t1
  IN IF t2.type = "loan" /\ t2.loanStatus = "settled" /\ t2.loanSettlementAccountId = NoId
     THEN [t2 EXCEPT !.loanSettlementAccountId = t2.accountId]
     ELSE t2

ResolveAccount_KeepsPaymentMethod(t, accts) ==
  LET found == FirstByName(accts, t.paymentMethod)
  IN IF t.accountId = NoId /\ t.paymentMethod # "" /\ found # NoId
     THEN [t EXCEPT !.accountId = found]
     ELSE t

ResolveAccount(t, accts) ==
  LET t1 == IF t.accountId # NoId /\ Has(accts, t.accountId)
            THEN [t EXCEPT !.paymentMethod = accts[t.accountId].name]
            ELSE t
      found == FirstByName(accts, t1.paymentMethod)
  IN IF t1.accountId = NoId /\ t1.paymentMethod # "" /\ found # NoId
     THEN [t1 EXCEPT !.accountId = found]
     ELSE t1

createTransaction(input) ==
  /\ LET t  == ResolveAccount(
                 DefaultLoan(DefaultType(ResolveCategoryOnCreate(input, categories))),
                 accounts)
         id == nextId.tx
         a1 == AddToBalance(accounts, t.accountId, getBalanceDelta(t))
         a2 == AddToBalance(a1, t.loanSettlementAccountId, getSettlementDelta(t))
     IN /\ transactions' = Put(transactions, id, t)
        /\ accounts' = a2
        /\ nextId' = [nextId EXCEPT !.tx = id + 1]
        /\ err' = "none"
  /\ UNCHANGED <<settings, categories, transfers, opening, backup, calls>>

(***************************************************************************)
(* updateTransaction.  {...existing, ...updates}: a field the patch        *)
(* carries replaces the stored one, also when it carries null.             *)
(***************************************************************************)
Merge(existing, patch) ==
  [amount                  |-> IF patch.amount = Absent THEN existing.amount ELSE patch.amount,
   type                    |-> IF patch.type = AbsentStr THEN existing.type ELSE patch.type,
   loanType                |-> IF patch.loanType = AbsentStr THEN existing.loanType ELSE patch.loanType,
   loanStatus              |-> IF patch.loanStatus = AbsentStr THEN existing.loanStatus ELSE patch.loanStatus,
   accountId               |-> IF patch.accountId = Absent THEN existing.accountId ELSE patch.accountId,
   loanSettlementAccountId |-> IF patch.loanSettlementAccountId = Absent
                               THEN existing.loanSettlementAccountId
                               ELSE patch.loanSettlementAccountId,
   paymentMethod           |-> IF patch.paymentMethod = AbsentStr THEN existing.paymentMethod ELSE patch.paymentMethod,
   categoryId              |-> IF patch.categoryId = Absent THEN existing.categoryId ELSE patch.categoryId,
   categoryName            |-> IF patch.categoryName = AbsentStr THEN existing.categoryName ELSE patch.categoryName]

ResolveCategoryOnUpdate_KeepsGivenType(existing, merged, cats) ==
  IF merged.categoryId # NoId /\ merged.categoryId # existing.categoryId
     /\ Has(cats, merged.categoryId)
  THEN [merged EXCEPT !.categoryName = cats[merged.categoryId].name,
                      !.type = IF @ = "" THEN cats[merged.categoryId].type ELSE @]
  ELSE merged

ResolveCategoryOnUpdate(existing, merged, cats) ==
  IF merged.categoryId # NoId /\ merged.categoryId # existing.categoryId
     /\ Has(cats, merged.categoryId)
  THEN [merged EXCEPT !.categoryName = cats[merged.categoryId].name,
                      !.type = cats[merged.categoryId].type]
  ELSE merged

ReconcilePrimary_NoReversal(accts, existing, merged) ==
  IF existing.accountId # NoId /\ existing.accountId = merged.accountId
  THEN AddToBalance(accts, existing.accountId,
                    getBalanceDelta(merged) - getBalanceDelta(existing))
  ELSE AddToBalance(accts, merged.accountId, getBalanceDelta(merged))

ReconcilePrimary_AsOneAccount(accts, existing, merged) ==
  AddToBalance(accts, merged.accountId,
               getBalanceDelta(merged) - getBalanceDelta(existing))

ReconcilePrimary(accts, existing, merged) ==
  IF existing.accountId # NoId /\ existing.accountId = merged.accountId
  THEN AddToBalance(accts, existing.accountId,
                    getBalanceDelta(merged) - getBalanceDelta(existing))
  ELSE AddToBalance(
         AddToBalance(accts, existing.accountId, 0 - getBalanceDelta(existing)),
         merged.accountId, getBalanceDelta(merged))

ReconcileSettlement_OldAccountOnly(accts, existing, merged) ==
  AddToBalance(accts, existing.loanSettlementAccountId,
               getSettlementDelta(merged) - getSettlementDelta(existing))

ReconcileSettlement(accts, existing, merged) ==
  IF existing.loanSettlementAccountId # NoId
     /\ existing.loanSettlementAccountId = merged.loanSettlementAccountId
  THEN AddToBalance(accts, existing.loanSettlementAccountId,
                    getSettlementDelta(merged) - getSettlementDelta(existing))
  ELSE AddToBalance(
         AddToBalance(accts, existing.loanSettlementAccountId,
                      0 - getSettlementDelta(existing)),
         merged.loanSettlementAccountId, getSettlementDelta(merged))

updateTransaction_IgnoresAbsent(id, patch) ==
  /\ IF ~Has(transactions, id)
     THEN /\ err' = "none"
          /\ UNCHANGED <<accounts, transactions>>
     ELSE LET existing == transactions[id]
              merged   == ResolveAccount(
                            DefaultLoan(
                              ResolveCategoryOnUpdate(existing, Merge(existing, patch),
                                                      categories)),
                            accounts)
          IN /\ accounts' = ReconcileSettlement(
                              ReconcilePrimary(accounts, existing, merged),
                              existing, merged)
             /\ transactions' = [transactions EXCEPT ![id] = merged]
             /\ err' = "none"
  /\ UNCHANGED <<settings, categories, transfers, nextId, opening, backup, calls>>

updateTransaction(id, patch) ==
  /\ IF ~Has(transactions, id)
     THEN /\ err' = "Transaction not found"
          /\ UNCHANGED <<accounts, transactions>>
     ELSE LET existing == transactions[id]
              merged   == ResolveAccount(
                            DefaultLoan(
                              ResolveCategoryOnUpdate(existing, Merge(existing, patch),
                                                      categories)),
                            accounts)
          IN /\ accounts' = ReconcileSettlement(
                              ReconcilePrimary(accounts, existing, merged),
                              existing, merged)
             /\ transactions' = [transactions EXCEPT ![id] = merged]
             /\ err' = "none"
  /\ UNCHANGED <<settings, categories, transfers, nextId, opening, backup, calls>>

(***************************************************************************)
(* deleteTransaction: existing?.accountId and                              *)
(* existing?.loanSettlementAccountId are undefined when the row is absent, *)
(* and Table.delete of an absent key does nothing.                         *)
(***************************************************************************)
deleteTransaction_ThrowsWhenAbsent(id) ==
  /\ IF Has(transactions, id)
     THEN /\ accounts' = AddToBalance(
                            AddToBalance(accounts, transactions[id].accountId,
                                         0 - getBalanceDelta(transactions[id])),
                            transactions[id].loanSettlementAccountId,
                            0 - getSettlementDelta(transactions[id]))
          /\ transactions' = Drop(transactions, id)
          /\ err' = "none"
     ELSE /\ UNCHANGED <<accounts, transactions>>
          /\ err' = "Transaction not found"
  /\ UNCHANGED <<settings, categories, transfers, nextId, opening, backup, calls>>

deleteTransaction_KeepsSettlement(id) ==
  /\ IF Has(transactions, id)
     THEN accounts' = AddToBalance(accounts, transactions[id].accountId,
                                   0 - getBalanceDelta(transactions[id]))
     ELSE UNCHANGED accounts
  /\ transactions' = Drop(transactions, id)
  /\ err' = "none"
  /\ UNCHANGED <<settings, categories, transfers, nextId, opening, backup, calls>>

deleteTransaction(id) ==
  /\ IF Has(transactions, id)
     THEN LET existing == transactions[id]
              a1 == AddToBalance(accounts, existing.accountId,
                                 0 - getBalanceDelta(existing))
              a2 == AddToBalance(a1, existing.loanSettlementAccountId,
                                 0 - getSettlementDelta(existing))
          IN /\ accounts' = a2
             /\ transactions' = Drop(transactions, id)
     ELSE UNCHANGED <<accounts, transactions>>
  /\ err' = "none"
  /\ UNCHANGED <<settings, categories, transfers, nextId, opening, backup, calls>>

(***************************************************************************)
(* transferBetweenAccounts.  The amount of the request is a string; it is  *)
(* modelled by what Number(amount) makes of it: a finite number v (the     *)
(* decimal string of v), NaN (a string that is no number) or Infinity.     *)
(***************************************************************************)
Decimal(v) == [k |-> "fin", v |-> v]
NotANumber == [k |-> "nan", v |-> 0]
Infinite == [k |-> "inf", v |-> 0]

IsFinite(parsed) == parsed.k = "fin"

InvalidAmount_AllowsZero(parsed) == ~IsFinite(parsed) \/ parsed.v < 0

InvalidAmount(parsed) == ~IsFinite(parsed) \/ parsed.v <= 0

InsufficientBalance_OffByOne(from, parsedAmount) ==
  BalanceOf(from) + 1 < parsedAmount

InsufficientBalance_Inclusive(from, parsedAmount) ==
  BalanceOf(from) <= parsedAmount

InsufficientBalance(from, parsedAmount) ==
  BalanceOf(from) < parsedAmount

TransferWrites_CreditOnly(accts, fromAccountId, toAccountId, parsedAmount) ==
  [accts EXCEPT ![toAccountId].balance = BalanceOf(accts[toAccountId]) + parsedAmount]

TransferWrites_DebitOnly(accts, fromAccountId, toAccountId, parsedAmount) ==
  [accts EXCEPT ![fromAccountId].balance = BalanceOf(accts[fromAccountId]) - parsedAmount]

(* fromBalance and toBalance are computed from the two rows read before    *)
(* either is written; the two accounts differ.                             *)
TransferWrites(accts, fromAccountId, toAccountId, parsedAmount) ==
  [accts EXCEPT ![fromAccountId].balance = BalanceOf(accts[fromAccountId]) - parsedAmount,
                ![toAccountId].balance = BalanceOf(accts[toAccountId]) + parsedAmount]

transferBetweenAccounts_AmountFirst(fromAccountId, toAccountId, amount) ==
  /\ IF InvalidAmount(amount)
     THEN /\ err' = "Transfer amount must be greater than 0"
          /\ UNCHANGED <<accounts, transfers, nextId>>
     ELSE IF fromAccountId = toAccountId
     THEN /\ err' = "Transfer accounts must be different"
          /\ UNCHANGED <<accounts, transfers, nextId>>
     ELSE IF ~Has(accounts, fromAccountId) \/ ~Has(accounts, toAccountId)
     THEN /\ err' = "Account not found"
          /\ UNCHANGED <<accounts, transfers, nextId>>
     ELSE IF InsufficientBalance(accounts[fromAccountId], amount.v)
     THEN /\ err' = "Insufficient balance in the selected account."
          /\ UNCHANGED <<accounts, transfers, nextId>>
     ELSE /\ accounts' = TransferWrites(accounts, fromAccountId, toAccountId, amount.v)
          /\ transfers' = Put(transfers, nextId.transfer,
                              [fromAccountId |-> fromAccountId, toAccountId |-> toAccountId,
                               amount |-> amount.v])
          /\ nextId' = [nextId EXCEPT !.transfer = @ + 1]
          /\ err' = "none"
  /\ UNCHANGED <<settings, categories, transactions, opening, backup, calls>>

transferBetweenAccounts(fromAccountId, toAccountId, amount) ==
  /\ IF fromAccountId = toAccountId
     THEN /\ err' = "Transfer accounts must be different"
          /\ UNCHANGED <<accounts, transfers, nextId>>
     ELSE IF InvalidAmount(amount)
     THEN /\ err' = "Transfer amount must be greater than 0"
          /\ UNCHANGED <<accounts, transfers, nextId>>
     ELSE IF ~Has(accounts, fromAccountId) \/ ~Has(accounts, toAccountId)
     THEN /\ err' = "Account not found"
          /\ UNCHANGED <<accounts, transfers, nextId>>
     ELSE IF InsufficientBalance(accounts[fromAccountId], amount.v)
     THEN /\ err' = "Insufficient balance in the selected account."
          /\ UNCHANGED <<accounts, transfers, nextId>>
     ELSE /\ accounts' = TransferWrites(accounts, fromAccountId, toAccountId, amount.v)
          /\ transfers' = Put(transfers, nextId.transfer,
                              [fromAccountId |-> fromAccountId, toAccountId |-> toAccountId,
                               amount |-> amount.v])
          /\ nextId' = [nextId EXCEPT !.transfer = @ + 1]
          /\ err' = "none"
  /\ UNCHANGED <<settings, categories, transactions, opening, backup, calls>>

(***************************************************************************)
(* The requests the model sends.                                           *)
(***************************************************************************)
Amounts == 1..MaxAmount
TxIds == 1..MaxTx
CashId == 1
BankId == 2
AccountRefs == {NoId, CashId, BankId}

NoCategoryForm ==
  [amount : Amounts, type : {"expense", "income", "loan"},
   loanType : {"", "borrow", "lend"}, loanStatus : {"", "open", "settled"},
   accountId : AccountRefs, loanSettlementAccountId : AccountRefs,
   paymentMethod : {"", "Cash"}, categoryId : {NoId}, categoryName : {""}]

(* What the transaction form submits, for a new transaction and for an     *)
(* edited one alike (TransactionModal.onSubmit sends every field): loan    *)
(* fields with a loan only, a settlement account with a settled loan only, *)
(* "Cash" as the payment method unless an account is chosen.               *)
Forms ==
  {t \in NoCategoryForm :
     /\ t.type # "loan" =>
          t.loanType = "" /\ t.loanStatus = "" /\ t.loanSettlementAccountId = NoId
     /\ t.type = "loan" => t.loanStatus # "" /\ t.loanType # ""
     /\ t.loanStatus = "open" => t.loanSettlementAccountId = NoId
     /\ (t.accountId # NoId) = (t.paymentMethod = "Cash")}

(* A form submitted as the patch of updateTransaction carries every field. *)
FormPatch(form) == form

(***************************************************************************)
(* What a specification remembers of the call the store saw last (err      *)
(* holds what it threw, "none" when it returned): the operation, the       *)
(* transaction id it was given or returned, a digest of the stored row of  *)
(* that id when the call began, and for a transfer its arguments.  The     *)
(* digest is the row's accountId and loanStatus (PriorOf) or only whether  *)
(* there was a row (FoundOf); Absent when there was none.  seen is the     *)
(* accounts, transactions and transfers as a call found them, kept for the *)
(* calls that are claimed to change nothing.                               *)
(***************************************************************************)
NoAmount == Decimal(0)
NoPrior == [accountId |-> Absent, loanStatus |-> AbsentStr]

PriorOf(txs, id) ==
  IF Has(txs, id)
  THEN [accountId |-> txs[id].accountId, loanStatus |-> txs[id].loanStatus]
  ELSE NoPrior

FoundOf(txs, id) ==
  IF Has(txs, id) THEN [accountId |-> NoId, loanStatus |-> ""] ELSE NoPrior

NoSnapshot ==
  [accounts |-> EmptyTable, transactions |-> EmptyTable, transfers |-> EmptyTable]
Snapshot ==
  [accounts |-> accounts, transactions |-> transactions, transfers |-> transfers]

Call(op, id, prior) ==
  [op |-> op, id |-> id, prior |-> prior,
   from |-> NoId, to |-> NoId, amount |-> NoAmount, seen |-> NoSnapshot]

(***************************************************************************)
(* The store after initializeDatabase on an empty database and after the   *)
(* user has added a Bank account with an opening balance.                  *)
(***************************************************************************)
FreshCategories == [k \in 1..Len(DefaultCategories) |-> DefaultCategories[k]]

NoBackup == [taken |-> FALSE]

(***************************************************************************)
(* The calls in flight.  Each storage method is an async function: between *)
(* two of its awaits another call can run.  A call that is not in flight   *)
(* is Idle; `begun` counts the calls that were started step by step.       *)
(***************************************************************************)
MaxInFlight == 2
Procs == 1..MaxInFlight

Idle ==
  [op |-> "idle", pc |-> "idle", id |-> NoId, jobs |-> <<>>, read |-> 0,
   fromAccountId |-> NoId, toAccountId |-> NoId, amount |-> 0,
   found |-> FALSE, fromBalance |-> 0, toBalance |-> 0]

NoCalls == [run |-> [p \in Procs |-> Idle], begun |-> 0]

TwoAccounts(cash, bank) ==
  /\ settings = [k \in {1} |-> DefaultSettings]
  /\ categories = FreshCategories
  /\ accounts = [k \in {CashId, BankId} |->
                   IF k = CashId THEN [DefaultAccount EXCEPT !.balance = cash]
                   ELSE [name |-> "Bank", type |-> "Bank", balance |-> bank]]
  /\ opening = [k \in {CashId, BankId} |-> IF k = CashId THEN cash ELSE bank]
  /\ transactions = EmptyTable
  /\ transfers = EmptyTable
  /\ nextId = [tx |-> 1, account |-> 3, category |-> Len(DefaultCategories) + 1,
               transfer |-> 1, settings |-> 2]
  /\ err = "none"
  /\ backup = NoBackup
  /\ calls = NoCalls
  /\ last = Call("init", NoId, NoPrior)

InitTx == TwoAccounts(0, MaxOpening)

NextTx ==
  \/ /\ nextId.tx <= MaxTx
     /\ \E form \in Forms : createTransaction(form)
     /\ last' = Call("createTransaction", nextId.tx, NoPrior)
  \/ \E id \in TxIds, form \in Forms :
       /\ updateTransaction(id, FormPatch(form))
       /\ last' = Call("updateTransaction", id, FoundOf(transactions, id))
  \/ \E id \in TxIds :
       /\ deleteTransaction(id)
       /\ last' = [Call("deleteTransaction", id, FoundOf(transactions, id))
                    EXCEPT !.seen = IF Has(transactions, id) THEN NoSnapshot ELSE Snapshot]

SpecTx == InitTx /\ [][NextTx]_vars

(***************************************************************************)
(* The ledger of one account: the primary deltas of the persisted          *)
(* transactions booked on it and the settlement deltas of those settled on *)
(* it.                                                                     *)
(***************************************************************************)
RECURSIVE LedgerSum(_, _, _)
LedgerSum(txs, ids, a) ==
  IF ids = {} THEN 0
  ELSE LET k == CHOOSE x \in ids : TRUE
       IN (IF txs[k].accountId = a THEN getBalanceDelta(txs[k]) ELSE 0)
          + (IF txs[k].loanSettlementAccountId = a THEN getSettlementDelta(txs[k]) ELSE 0)
          + LedgerSum(txs, ids \ {k}, a)

(* C1: after every create, update and delete of a transaction, each        *)
(* account's balance is its balance at creation plus the primary deltas of *)
(* the persisted transactions on it plus the settlement deltas of the      *)
(* persisted transactions settled on it.                                   *)
C1_BalanceIsLedgerSum ==
  \A a \in DOMAIN accounts :
    BalanceOf(accounts[a]) = opening[a] + LedgerSum(transactions, DOMAIN transactions, a)

C1_Witness ==
  /\ last.op = "deleteTransaction"
  /\ last.prior # NoPrior
  /\ \E k \in DOMAIN transactions :
       /\ transactions[k].type = "loan"
       /\ transactions[k].loanStatus = "settled"
       /\ transactions[k].accountId = CashId
       /\ transactions[k].loanSettlementAccountId = BankId
  /\ BalanceOf(accounts[CashId]) # opening[CashId]
  /\ BalanceOf(accounts[BankId]) # opening[BankId]

(* C7: deleteTransaction of an id that is not persisted (deleted before,   *)
(* or never created) throws nothing and leaves every account and the       *)
(* transactions collection as the call found them.                         *)
C7_DeleteIdempotent ==
  (last.op = "deleteTransaction" /\ last.prior = NoPrior)
    => /\ err = "none"
       /\ accounts = last.seen.accounts
       /\ transactions = last.seen.transactions

(* A second delete of an id that was persisted once, with another          *)
(* transaction and its balance effects in the store.                       *)
C7_Witness ==
  /\ last.op = "deleteTransaction"
  /\ last.prior = NoPrior
  /\ last.id < nextId.tx
  /\ err = "none"
  /\ transactions # EmptyTable
  /\ \E a \in DOMAIN accounts : BalanceOf(accounts[a]) # opening[a]

(***************************************************************************)
(* One transaction at a time on three accounts, patched field by field.    *)
(***************************************************************************)
MobileId == 3
ThreeRefs == {NoId, CashId, BankId, MobileId}

LedgerInputs ==
  [amount : Amounts, type : {"", "expense", "income", "loan"},
   loanType : {"", "borrow", "lend"}, loanStatus : {"", "open", "settled"},
   accountId : ThreeRefs, loanSettlementAccountId : ThreeRefs,
   paymentMethod : {""}, categoryId : {NoId}, categoryName : {""}]

LedgerPatchSpace ==
  [amount : Amounts \cup {Absent}, type : {"expense", "income", "loan", AbsentStr},
   loanType : {"borrow", "lend", AbsentStr},
   loanStatus : {"open", "settled", AbsentStr},
   accountId : (ThreeRefs \ {NoId}) \cup {Absent},
   loanSettlementAccountId : ThreeRefs \cup {Absent},
   paymentMethod : {AbsentStr}, categoryId : {Absent}, categoryName : {AbsentStr}]

PatchFields(p) ==
  {f \in {"amount", "accountId", "loanSettlementAccountId", "categoryId"} : p[f] # Absent}
  \cup {f \in {"type", "loanType", "loanStatus", "paymentMethod", "categoryName"} :
          p[f] # AbsentStr}

LedgerPatches == {p \in LedgerPatchSpace : Cardinality(PatchFields(p)) <= MaxPatchFields}

ThreeAccounts(cash, bank, mobile) ==
  /\ settings = [k \in {1} |-> DefaultSettings]
  /\ categories = FreshCategories
  /\ accounts = [k \in {CashId, BankId, MobileId} |->
                   IF k = CashId THEN [DefaultAccount EXCEPT !.balance = cash]
                   ELSE IF k = BankId THEN [name |-> "Bank", type |-> "Bank", balance |-> bank]
                   ELSE [name |-> "bKash", type |-> "Mobile", balance |-> mobile]]
  /\ opening = [k \in {CashId, BankId, MobileId} |->
                  IF k = CashId THEN cash ELSE IF k = BankId THEN bank ELSE mobile]
  /\ transactions = EmptyTable
  /\ transfers = EmptyTable
  /\ nextId = [tx |-> 1, account |-> 4, category |-> Len(DefaultCategories) + 1,
               transfer |-> 1, settings |-> 2]
  /\ err = "none"
  /\ backup = NoBackup
  /\ calls = NoCalls
  /\ last = Call("init", NoId, NoPrior)

InitPatch == ThreeAccounts(0, MaxOpening, 0)

NextPatch ==
  \/ /\ nextId.tx = 1
     /\ \E input \in LedgerInputs : createTransaction(input)
     /\ last' = Call("createTransaction", nextId.tx, NoPrior)
  \/ \E id \in DOMAIN transactions, patch \in LedgerPatches :
       /\ updateTransaction(id, patch)
       /\ last' = Call("updateTransaction", id, PriorOf(transactions, id))
  \/ \E id \in TxIds \ DOMAIN transactions :
       \E patch \in {p \in LedgerPatches : Cardinality(PatchFields(p)) <= 1} :
         /\ updateTransaction(id, patch)
         /\ last' = Call("updateTransaction", id, PriorOf(transactions, id))
  \/ \E id \in TxIds :
       /\ deleteTransaction(id)
       /\ last' = Call("deleteTransaction", id, FoundOf(transactions, id))

SpecPatch == InitPatch /\ [][NextPatch]_vars

(***************************************************************************)
(* A step that is an updateTransaction(id, ..) which found the row and     *)
(* returned: the row before it is transactions[id], after it               *)
(* transactions'[id].                                                      *)
(***************************************************************************)
UpdateStep(id) ==
  /\ last'.op = "updateTransaction"
  /\ last'.id = id
  /\ err' = "none"
  /\ Has(transactions, id)

MovesAccount(id, a, b) ==
  /\ UpdateStep(id)
  /\ a # b
  /\ transactions[id].accountId = a
  /\ transactions'[id].accountId = b

(* What an update books on account x: the old primary delta off the old    *)
(* primary account, the new one on the new primary account, and the same   *)
(* with the settlement deltas on the old and new settlement accounts.      *)
NetEffect(e, m, x) ==
    (IF m.accountId = x THEN getBalanceDelta(m) ELSE 0)
  - (IF e.accountId = x THEN getBalanceDelta(e) ELSE 0)
  + (IF m.loanSettlementAccountId = x THEN getSettlementDelta(m) ELSE 0)
  - (IF e.loanSettlementAccountId = x THEN getSettlementDelta(e) ELSE 0)

(* C8 as claimed: an update that moves a transaction from account A to     *)
(* account B takes the old primary delta off A, puts the new primary delta *)
(* on B and changes no account other than A, B and the settlement          *)
(* accounts.                                                               *)
C8_AsClaimed ==
  [][\A id \in TxIds : \A a, b \in DOMAIN accounts :
       MovesAccount(id, a, b) =>
         /\ BalanceOf(accounts'[a]) = BalanceOf(accounts[a]) - getBalanceDelta(transactions[id])
         /\ BalanceOf(accounts'[b]) = BalanceOf(accounts[b]) + getBalanceDelta(transactions'[id])
         /\ \A x \in DOMAIN accounts \ {a, b, transactions[id].loanSettlementAccountId,
                                         transactions'[id].loanSettlementAccountId} :
              accounts'[x] = accounts[x]]_vars

(* C8, amended: an update that moves a transaction from account A to       *)
(* account B takes the old primary delta off A and puts the new primary    *)
(* delta on B, each on top of the settlement reconciliation that falls on  *)
(* the same account when A or B is the old or new settlement account; no   *)
(* account other than A, B and the old and new settlement accounts         *)
(* changes.                                                                *)
C8_AccountMove ==
  [][\A id \in TxIds : \A a, b \in DOMAIN accounts :
       MovesAccount(id, a, b) =>
         \A x \in DOMAIN accounts :
           /\ BalanceOf(accounts'[x])
                = BalanceOf(accounts[x]) + NetEffect(transactions[id], transactions'[id], x)
           /\ x \notin {a, b, transactions[id].loanSettlementAccountId,
                        transactions'[id].loanSettlementAccountId}
                => accounts'[x] = accounts[x]]_vars

(* A loan moved from Cash to Bank by an update, settled on Bank, with the  *)
(* third account untouched.                                                *)
C8_Witness ==
  /\ last.op = "updateTransaction"
  /\ err = "none"
  /\ last.prior.accountId = CashId
  /\ Has(transactions, last.id)
  /\ transactions[last.id].accountId = BankId
  /\ transactions[last.id].type = "loan"
  /\ transactions[last.id].loanStatus = "settled"
  /\ transactions[last.id].loanSettlementAccountId = BankId
  /\ BalanceOf(accounts[MobileId]) = opening[MobileId]

(* C16: updateTransaction of an id that is not persisted throws the        *)
(* not-found error whatever the patch, and leaves every account and every  *)
(* stored transaction as it was.                                           *)
C16_UpdateOfAbsentId ==
  [][\A id \in TxIds :
       (last'.op = "updateTransaction" /\ last'.id = id /\ ~Has(transactions, id))
         => /\ err' = "Transaction not found"
            /\ accounts' = accounts
            /\ transactions' = transactions]_vars

(* An update of an id that was never created, with another transaction and *)
(* its balance effect in the store.                                        *)
C16_Witness ==
  /\ last.op = "updateTransaction"
  /\ last.prior = NoPrior
  /\ err = "Transaction not found"
  /\ ~Has(transactions, last.id)
  /\ transactions # EmptyTable
  /\ \E a \in DOMAIN accounts : BalanceOf(accounts[a]) # opening[a]

(* C9: settling an open loan booked on an existing account P by an update  *)
(* that sets loanStatus to settled and loanSettlementAccountId to an       *)
(* existing account S other than P changes S's balance by -amount for a    *)
(* borrow and +amount for a lend, and leaves P's balance unchanged.        *)
C9_SettleOnOtherAccount ==
  [][\A id \in TxIds : \A s \in DOMAIN accounts :
       ( /\ UpdateStep(id)
         /\ transactions[id].type = "loan"
         /\ transactions[id].loanStatus = "open"
         /\ Has(accounts, transactions[id].accountId)
         /\ s # transactions[id].accountId
         /\ transactions'[id] = [transactions[id] EXCEPT !.loanStatus = "settled",
                                                         !.loanSettlementAccountId = s] )
       => /\ BalanceOf(accounts'[s])
               = BalanceOf(accounts[s])
                 + (IF transactions[id].loanType = "borrow"
                    THEN 0 - transactions[id].amount ELSE transactions[id].amount)
          /\ BalanceOf(accounts'[transactions[id].accountId])
               = BalanceOf(accounts[transactions[id].accountId])]_vars

(* An open borrow on Cash settled from Bank: Cash keeps the amount, Bank   *)
(* has paid it.                                                            *)
C9_Witness ==
  /\ last.op = "updateTransaction"
  /\ err = "none"
  /\ last.prior.loanStatus = "open"
  /\ last.prior.accountId = CashId
  /\ Has(transactions, last.id)
  /\ transactions[last.id].type = "loan"
  /\ transactions[last.id].loanType = "borrow"
  /\ transactions[last.id].loanStatus = "settled"
  /\ transactions[last.id].accountId = CashId
  /\ transactions[last.id].loanSettlementAccountId = BankId
  /\ BalanceOf(accounts[CashId]) = opening[CashId] + transactions[last.id].amount
  /\ BalanceOf(accounts[BankId]) = opening[BankId] - transactions[last.id].amount

(***************************************************************************)
(* Transfers between three accounts, with requests that name a fourth,     *)
(* missing account and amounts that are negative, zero, no number or       *)
(* infinite.  Cash starts overdrawn, empty or funded.                      *)
(***************************************************************************)
MissingId == 4
TransferRefs == {CashId, BankId, MobileId, MissingId}
TransferAmounts == {Decimal(v) : v \in -1..MaxAmount} \cup {NotANumber, Infinite}

InitTransfer ==
  \E cash \in -1..MaxOpening, bank \in 0..MaxOpening : ThreeAccounts(cash, bank, 0)

TransferCall(from, to, amount) ==
  [Call("transferBetweenAccounts", NoId, NoPrior)
     EXCEPT !.from = from, !.to = to, !.amount = amount, !.seen = Snapshot]

NextTransfer ==
  /\ nextId.transfer <= MaxTransfers
  /\ \E from \in TransferRefs, to \in TransferRefs, amount \in TransferAmounts :
       /\ transferBetweenAccounts(from, to, amount)
       /\ last' = TransferCall(from, to, amount)

SpecTransfer == InitTransfer /\ [][NextTransfer]_vars

Transferred == last.op = "transferBetweenAccounts"

(* C3: a transfer that returns takes exactly the amount off the source,    *)
(* puts exactly the amount on the destination, keeps the sum of the two    *)
(* balances and changes no other account.                                  *)
C3_TransferConserves ==
  (Transferred /\ err = "none")
    => /\ BalanceOf(accounts[last.from])
            = BalanceOf(last.seen.accounts[last.from]) - last.amount.v
       /\ BalanceOf(accounts[last.to])
            = BalanceOf(last.seen.accounts[last.to]) + last.amount.v
       /\ BalanceOf(accounts[last.from]) + BalanceOf(accounts[last.to])
            = BalanceOf(last.seen.accounts[last.from])
              + BalanceOf(last.seen.accounts[last.to])
       /\ DOMAIN accounts = DOMAIN last.seen.accounts
       /\ \A x \in DOMAIN accounts \ {last.from, last.to} :
            accounts[x] = last.seen.accounts[x]

C3_Witness ==
  /\ Transferred
  /\ err = "none"
  /\ last.from = CashId
  /\ last.to = BankId
  /\ last.amount.v = 1
  /\ BalanceOf(last.seen.accounts[BankId]) > 0
  /\ Cardinality(DOMAIN transfers) = 2

(* C4: a transfer between two different existing accounts of a positive    *)
(* finite amount greater than the source's balance throws the              *)
(* insufficient-balance error and leaves the accounts and the transfers    *)
(* as it found them.                                                       *)
C4_InsufficientFunds ==
  ( /\ Transferred
    /\ last.from # last.to
    /\ Has(last.seen.accounts, last.from)
    /\ Has(last.seen.accounts, last.to)
    /\ IsFinite(last.amount)
    /\ last.amount.v > 0
    /\ last.amount.v > BalanceOf(last.seen.accounts[last.from]) )
    => /\ err = "Insufficient balance in the selected account."
       /\ accounts = last.seen.accounts
       /\ transfers = last.seen.transfers

C4_Witness ==
  /\ Transferred
  /\ err = "Insufficient balance in the selected account."
  /\ last.from = CashId
  /\ last.to = BankId
  /\ BalanceOf(accounts[CashId]) = 1
  /\ last.amount.v = 2
  /\ Cardinality(DOMAIN transfers) = 1

(* C5: a transfer from an account to itself throws the different-accounts  *)
(* error whatever the amount and whether or not the account exists, and    *)
(* leaves the accounts and the transfers as it found them.                 *)
C5_SameAccountRejected ==
  (Transferred /\ last.from = last.to)
    => /\ err = "Transfer accounts must be different"
       /\ accounts = last.seen.accounts
       /\ transfers = last.seen.transfers

C5_Witness ==
  /\ Transferred
  /\ last.from = last.to
  /\ ~Has(accounts, last.from)
  /\ last.amount = NotANumber
  /\ err = "Transfer accounts must be different"
  /\ transfers # EmptyTable

(* C6: after a transfer that returns the source's balance is not negative; *)
(* a transfer of the source's whole positive balance between two different *)
(* existing accounts returns and leaves the source at 0; a transfer out of *)
(* an account whose balance is zero or negative throws.                    *)
C6_NoOverdraftByTransfer ==
  Transferred
    => /\ err = "none" => BalanceOf(accounts[last.from]) >= 0
       /\ ( /\ last.from # last.to
            /\ Has(last.seen.accounts, last.from)
            /\ Has(last.seen.accounts, last.to)
            /\ IsFinite(last.amount)
            /\ last.amount.v > 0
            /\ last.amount.v = BalanceOf(last.seen.accounts[last.from]) )
            => (err = "none" /\ BalanceOf(accounts[last.from]) = 0)
       /\ ( /\ Has(last.seen.accounts, last.from)
            /\ BalanceOf(last.seen.accounts[last.from]) <= 0 )
            => (err # "none" /\ accounts = last.seen.accounts
                /\ transfers = last.seen.transfers)

C6_Witness ==
  /\ Transferred
  /\ err = "none"
  /\ last.from = CashId
  /\ last.amount.v = BalanceOf(last.seen.accounts[CashId])
  /\ BalanceOf(accounts[CashId]) = 0

(* The error kinds of the specification, by the messages thrown.           *)
ValidationErrors ==
  {"Transfer accounts must be different", "Transfer amount must be greater than 0"}

NotFoundErrors == {"Account not found"}

AccountMissing ==
  ~Has(last.seen.accounts, last.from) \/ ~Has(last.seen.accounts, last.to)

NothingWritten ==
  /\ accounts = last.seen.accounts
  /\ transfers = last.seen.transfers

(* C17 as claimed: a transfer fails with a validation error when the       *)
(* amount is zero, negative or not a finite number, and with a not-found   *)
(* error when either account does not exist; in each of these failures no  *)
(* balance changes and no transfer is persisted.                           *)
C17_AsClaimed ==
  Transferred
    => /\ InvalidAmount(last.amount) => (err \in ValidationErrors /\ NothingWritten)
       /\ AccountMissing => (err \in NotFoundErrors /\ NothingWritten)

(* C17, amended: a transfer fails with a validation error when the amount  *)
(* is zero, negative or not a finite number, and with a not-found error    *)
(* when the two ids differ, the amount is a finite number above 0 and      *)
(* either account does not exist; with a missing account and identical ids *)
(* or an invalid amount it fails with the validation error.  In each of    *)
(* these failures no balance changes and no transfer is persisted.         *)
C17_TransferRejects ==
  LET rejected == last.amount.k # "fin" \/ last.amount.v <= 0
  IN Transferred
       => /\ rejected => (err \in ValidationErrors /\ NothingWritten)
          /\ (AccountMissing /\ last.from # last.to /\ ~rejected)
               => (err \in NotFoundErrors /\ NothingWritten)
          /\ (AccountMissing /\ (last.from = last.to \/ rejected))
               => (err \in ValidationErrors /\ NothingWritten)

(* A transfer of a valid amount to an account that does not exist, after a *)
(* transfer that was persisted.                                            *)
C17_Witness ==
  /\ Transferred
  /\ err = "Account not found"
  /\ last.to = MissingId
  /\ Has(accounts, last.from)
  /\ last.amount = Decimal(1)
  /\ transfers # EmptyTable

(***************************************************************************)
(* Transactions and transfers together, on two accounts.                   *)
(***************************************************************************)
LedgerForms ==
  {t \in Forms :
     /\ t.accountId # NoId
     /\ t.type = "loan" =>
          (t.loanType = "borrow" /\ t.loanStatus = "settled"
           /\ t.loanSettlementAccountId # NoId)}

NextLedger ==
  \/ /\ nextId.tx <= MaxTx
     /\ \E form \in LedgerForms : createTransaction(form)
     /\ last' = Call("createTransaction", NoId, NoPrior)
  \/ \E id \in DOMAIN transactions, form \in LedgerForms :
       /\ updateTransaction(id, FormPatch(form))
       /\ last' = Call("updateTransaction", NoId, NoPrior)
  \/ \E id \in DOMAIN transactions :
       /\ deleteTransaction(id)
       /\ last' = Call("deleteTransaction", NoId, NoPrior)
  \/ /\ nextId.transfer <= MaxTransfers
     /\ \E from \in {CashId, BankId}, to \in {CashId, BankId}, v \in Amounts :
          /\ transferBetweenAccounts(from, to, Decimal(v))
          /\ last' = Call("transferBetweenAccounts", NoId, NoPrior)

SpecLedger == InitTx /\ [][NextLedger]_vars

RECURSIVE TransferSum(_, _, _)
TransferSum(trs, ids, a) ==
  IF ids = {} THEN 0
  ELSE LET k == CHOOSE x \in ids : TRUE
       IN (IF trs[k].toAccountId = a THEN trs[k].amount ELSE 0)
          - (IF trs[k].fromAccountId = a THEN trs[k].amount ELSE 0)
          + TransferSum(trs, ids \ {k}, a)

(* C2: after every create, update and delete of a transaction and every    *)
(* transfer, each account's balance is its balance at creation, plus the   *)
(* primary and settlement deltas of the persisted transactions on it, plus *)
(* the amounts of the persisted transfers into it, minus the amounts of    *)
(* the persisted transfers out of it.                                      *)
C2_BalanceIsLedgerAndTransfers ==
  \A a \in DOMAIN accounts :
    BalanceOf(accounts[a])
      = opening[a] + LedgerSum(transactions, DOMAIN transactions, a)
        + TransferSum(transfers, DOMAIN transfers, a)

(* Two transfers in opposite directions and a settled loan between the two *)
(* accounts.                                                               *)
C2_Witness ==
  /\ \E i, j \in DOMAIN transfers :
       /\ transfers[i].fromAccountId = CashId
       /\ transfers[j].fromAccountId = BankId
  /\ \E k \in DOMAIN transactions :
       /\ transactions[k].type = "loan"
       /\ transactions[k].accountId = CashId
       /\ transactions[k].loanSettlementAccountId = BankId
  /\ last.op = "deleteTransaction"

(***************************************************************************)
(* The database as one value, for the handlers that run one after another  *)
(* inside resetAllData and importData: the tables, the key generators      *)
(* (Table.clear() does not reset them), each account's balance at its      *)
(* creation and the error the handler has thrown ("none" when it has       *)
(* not).                                                                   *)
(***************************************************************************)
Db ==
  [settings |-> settings, categories |-> categories, accounts |-> accounts,
   transactions |-> transactions, nextId |-> nextId, opening |-> opening,
   err |-> "none"]

Commit(D) ==
  /\ settings' = D.settings
  /\ categories' = D.categories
  /\ accounts' = D.accounts
  /\ transactions' = D.transactions
  /\ nextId' = D.nextId
  /\ opening' = D.opening
  /\ err' = D.err

(* The keys of a table in ascending order.                                 *)
Ascending(S) ==
  [i \in 1..Cardinality(S) |-> CHOOSE x \in S : Cardinality({y \in S : y <= x}) = i]

Reverse(seq) == [i \in 1..Len(seq) |-> seq[Len(seq) + 1 - i]]

(* orderBy('id').toArray(): the rows, each with its key, by ascending key. *)
CategoryRow(row, id) ==
  [id |-> id, name |-> row.name, color |-> row.color, type |-> row.type]

AccountRow(row, id) ==
  [id |-> id, name |-> row.name, type |-> row.type, balance |-> row.balance]

TransactionRow(row, id) ==
  [id |-> id, amount |-> row.amount, type |-> row.type, loanType |-> row.loanType,
   loanStatus |-> row.loanStatus, accountId |-> row.accountId,
   loanSettlementAccountId |-> row.loanSettlementAccountId,
   paymentMethod |-> row.paymentMethod, categoryId |-> row.categoryId,
   categoryName |-> row.categoryName]

getCategories(D) ==
  LET order == Ascending(DOMAIN D.categories)
  IN [i \in 1..Len(order) |-> CategoryRow(D.categories[order[i]], order[i])]

getAccounts(D) ==
  LET order == Ascending(DOMAIN D.accounts)
  IN [i \in 1..Len(order) |-> AccountRow(D.accounts[order[i]], order[i])]

(* getTransactions() orders by date, newest first; dates are taken to grow *)
(* with the ids.                                                           *)
getTransactions(D) ==
  LET order == Ascending(DOMAIN D.transactions)
  IN Reverse([i \in 1..Len(order) |-> TransactionRow(D.transactions[order[i]], order[i])])

(***************************************************************************)
(* getSettings / updateSettings.  A currencySymbol of "" is the property   *)
(* missing from the stored row.  A patch carries isSetupComplete as        *)
(* "true", "false" or AbsentStr.                                           *)
(***************************************************************************)
EnsureSettings(D) ==
  IF DOMAIN D.settings = {}
  THEN [D EXCEPT !.settings = Put(@, D.nextId.settings, DefaultSettings),
                 !.nextId.settings = @ + 1]
  ELSE D

getSettings(D) ==
  LET existing == EnsureSettings(D).settings[SetMin(DOMAIN EnsureSettings(D).settings)]
  IN [currencySymbol |-> IF existing.currencySymbol = ""
                         THEN DefaultSettings.currencySymbol
                         ELSE existing.currencySymbol,
      isSetupComplete |-> existing.isSetupComplete]

updateSettings(D, updates) ==
  LET D1 == EnsureSettings(D)
      id == SetMin(DOMAIN D1.settings)
      existing == D1.settings[id]
  IN [D1 EXCEPT !.settings[id] =
        [currencySymbol |-> IF updates.currencySymbol = AbsentStr
                            THEN existing.currencySymbol
                            ELSE updates.currencySymbol,
         isSetupComplete |-> IF updates.isSetupComplete = AbsentStr
                             THEN existing.isSetupComplete
                             ELSE updates.isSetupComplete = "true"]]

(***************************************************************************)
(* Table.add of an account (createAccount) and of a category: the row gets *)
(* the next key of its table.                                              *)
(***************************************************************************)
AddAccount(D, account) ==
  [D EXCEPT !.accounts = Put(@, D.nextId.account, account),
            !.opening = Put(@, D.nextId.account, account.balance),
            !.nextId.account = @ + 1]

AddCategory(D, category) ==
  [D EXCEPT !.categories = Put(@, D.nextId.category, category),
            !.nextId.category = @ + 1]

(***************************************************************************)
(* initializeDatabase.  Every stored settings row has isSetupComplete and  *)
(* every stored category has a type, so the two repairs of old rows do     *)
(* nothing.                                                                *)
(***************************************************************************)
(* bulkAdd: the rows get the next keys in the order of the array.          *)
BulkAddCategories(D, cats) ==
  [D EXCEPT !.categories =
              [k \in DOMAIN D.categories
                       \cup (D.nextId.category .. D.nextId.category + Len(cats) - 1) |->
                 IF k \in DOMAIN D.categories THEN D.categories[k]
                 ELSE cats[k - D.nextId.category + 1]],
            !.nextId.category = @ + Len(cats)]

(* The loop over the first n of the required categories.                   *)
RECURSIVE AddRequiredCategories(_, _, _)
AddRequiredCategories(D, required, n) ==
  IF n = 0 THEN D
  ELSE LET sofar == AddRequiredCategories(D, required, n - 1)
       IN IF FirstByName(sofar.categories, required[n].name) = NoId
          THEN AddCategory(sofar, required[n])
          ELSE sofar

RenameOldLoan(D) ==
  LET oldLoan == FirstByName(D.categories, "Loan")
  IN IF oldLoan = NoId THEN D
     ELSE [D EXCEPT !.categories[oldLoan].name = "Lend",
                    !.categories[oldLoan].type = "loan"]

initializeDatabase(D) ==
  LET D1 == EnsureSettings(D)
      D2 == IF DOMAIN D1.categories = {}
            THEN BulkAddCategories(D1, DefaultCategories)
            ELSE RenameOldLoan(AddRequiredCategories(D1, DefaultCategories,
                                                     Len(DefaultCategories)))
  IN IF DOMAIN D2.accounts = {} THEN AddAccount(D2, DefaultAccount) ELSE D2

resetAllData_KeepsAccounts(D) ==
  initializeDatabase([D EXCEPT !.settings = EmptyTable, !.categories = EmptyTable,
                               !.transactions = EmptyTable])

(* resetAllData clears settings, categories, transactions and accounts     *)
(* (not transfers) and runs initializeDatabase.                            *)
resetAllData(D) ==
  initializeDatabase([D EXCEPT !.settings = EmptyTable, !.categories = EmptyTable,
                               !.transactions = EmptyTable, !.accounts = EmptyTable,
                               !.opening = EmptyTable])

(***************************************************************************)
(* importData(data).  A bundle is what JSON.parse gives: settings is a     *)
(* sequence of no or one record (no record: the property is missing) whose *)
(* isSetupComplete is "true", "false" or "undefined"; categories, accounts *)
(* and transactions are sequences of rows (an empty sequence stands for a  *)
(* missing array too), each row with its id (NoId when it has none).       *)
(***************************************************************************)
hasAccounts(data) == Len(data.accounts) > 0

ImportSettings(D, data) ==
  IF data.settings = <<>> THEN D
  ELSE updateSettings(D,
         [currencySymbol |-> data.settings[1].currencySymbol,
          isSetupComplete |-> IF data.settings[1].isSetupComplete # "undefined"
                              THEN data.settings[1].isSetupComplete
                              ELSE "true"])

(* The loop "for (row of rows) { existing = where('name').equals(row.name)  *)
(* .first(); existing ? update(existing.id, the fields of row but its      *)
(* name) : add(row) }" as one value: the first stored row of a name that   *)
(* the array has becomes the last array row of that name; the names the    *)
(* table has not get the next keys in the order they first appear, each    *)
(* with the last array row of its name.                                    *)
LastOfName(rows, name) ==
  rows[CHOOSE i \in 1..Len(rows) :
         /\ rows[i].name = name
         /\ \A j \in 1..Len(rows) : rows[j].name = name => j <= i]

FirstIndexOfName(rows, name) ==
  CHOOSE i \in 1..Len(rows) :
    /\ rows[i].name = name
    /\ \A j \in 1..Len(rows) : rows[j].name = name => i <= j

AddedNames(table, rows) ==
  {rows[i].name : i \in 1..Len(rows)} \ {table[k].name : k \in DOMAIN table}

AddedKey(table, next, rows, name) ==
  next + Cardinality({m \in AddedNames(table, rows) :
                        FirstIndexOfName(rows, m) < FirstIndexOfName(rows, name)})

UpsertByName(table, next, rows) ==
  LET added == AddedNames(table, rows)
      names == {rows[i].name : i \in 1..Len(rows)}
  IN [k \in DOMAIN table \cup {AddedKey(table, next, rows, n) : n \in added} |->
        IF k \in DOMAIN table
        THEN IF table[k].name \in names /\ FirstByName(table, table[k].name) = k
             THEN LastOfName(rows, table[k].name)
             ELSE table[k]
        ELSE LastOfName(rows, CHOOSE n \in added : AddedKey(table, next, rows, n) = k)]

ImportedCategory(cat) ==
  [name |-> cat.name, color |-> cat.color,
   type |-> IF cat.type = "" THEN "expense" ELSE cat.type]

ImportCategories(D, cats) ==
  LET rows == [i \in 1..Len(cats) |-> ImportedCategory(cats[i])]
  IN [D EXCEPT !.categories = UpsertByName(D.categories, D.nextId.category, rows),
               !.nextId.category = @ + Cardinality(AddedNames(D.categories, rows))]

ImportedAccount(acc) == [name |-> acc.name, type |-> acc.type, balance |-> acc.balance]

ImportAccounts_AlwaysCreates(D, accs) ==
  LET next == D.nextId.account
      added == next .. next + Len(accs) - 1
  IN [D EXCEPT !.accounts =
                 [k \in DOMAIN D.accounts \cup added |->
                    IF k \in DOMAIN D.accounts THEN D.accounts[k]
                    ELSE ImportedAccount(accs[k - next + 1])],
               !.opening =
                 [k \in DOMAIN D.opening \cup added |->
                    IF k \in DOMAIN D.opening THEN D.opening[k]
                    ELSE accs[k - next + 1].balance],
               !.nextId.account = @ + Len(accs)]

(* An account the loop creates is created with the balance of the first    *)
(* array row of its name.                                                  *)
ImportAccounts(D, accs) ==
  LET rows == [i \in 1..Len(accs) |-> ImportedAccount(accs[i])]
      added == AddedNames(D.accounts, rows)
  IN [D EXCEPT !.accounts = UpsertByName(D.accounts, D.nextId.account, rows),
               !.opening =
                 [k \in DOMAIN D.opening
                          \cup {AddedKey(D.accounts, D.nextId.account, rows, n) : n \in added} |->
                    IF k \in DOMAIN D.opening THEN D.opening[k]
                    ELSE rows[FirstIndexOfName(rows,
                                CHOOSE n \in added :
                                  AddedKey(D.accounts, D.nextId.account, rows, n) = k)].balance],
               !.nextId.account = @ + Cardinality(added)]

(* oldAccountIdToName: the name of the last bundle account of that id.     *)
OldIds(accs) == {accs[i].id : i \in 1..Len(accs)} \ {NoId}

OldName(accs, id) ==
  accs[CHOOSE i \in 1..Len(accs) :
         /\ accs[i].id = id
         /\ \A j \in 1..Len(accs) : accs[j].id = id => j <= i].name

(* nameToAccountId: filled from accounts.toArray(), so the last (greatest) *)
(* key of that name; NoId when there is none.                              *)
nameToAccountId(accts, name) ==
  LET ids == {k \in DOMAIN accts : accts[k].name = name}
  IN IF ids = {} THEN NoId ELSE CHOOSE m \in ids : \A n \in ids : n <= m

(* One account of each payment method of the transactions, in the order   *)
(* the methods first appear, unless an account of that name is there.      *)
RECURSIVE InferAccounts(_, _, _)
InferAccounts(D, txs, n) ==
  IF n = 0 THEN D
  ELSE LET sofar == InferAccounts(D, txs, n - 1)
           name == txs[n].paymentMethod
       IN IF name # "" /\ FirstByName(sofar.accounts, name) = NoId
          THEN AddAccount(sofar, [name |-> name,
                                   type |-> IF name = "Cash" THEN "Cash" ELSE "Bank",
                                   balance |-> 0])
          ELSE sofar

InferredAccounts(D, txs) ==
  IF \E i \in 1..Len(txs) : txs[i].paymentMethod # ""
  THEN InferAccounts(D, txs, Len(txs))
  ELSE IF FirstByName(D.accounts, "Cash") = NoId
       THEN AddAccount(D, DefaultAccount)
       ELSE D

RemapAccount(D, accs, id) ==
  IF id # NoId /\ id \in OldIds(accs)
  THEN nameToAccountId(D.accounts, OldName(accs, id))
  ELSE id

ImportedTransaction(D, accs, tx) ==
  LET cat == IF tx.categoryName = "" THEN NoId
             ELSE FirstByName(D.categories, tx.categoryName)
      remapped == RemapAccount(D, accs, tx.accountId)
      accountId == IF remapped = NoId /\ tx.paymentMethod # ""
                   THEN nameToAccountId(D.accounts, tx.paymentMethod)
                   ELSE remapped
      settleRemapped == RemapAccount(D, accs, tx.loanSettlementAccountId)
      settlementAccountId == IF settleRemapped = NoId /\ tx.loanStatus = "settled"
                             THEN accountId
                             ELSE settleRemapped
  IN [amount |-> tx.amount,
      categoryId |-> IF cat # NoId THEN cat ELSE tx.categoryId,
      categoryName |-> tx.categoryName,
      paymentMethod |-> IF tx.paymentMethod = "" THEN "Cash" ELSE tx.paymentMethod,
      accountId |-> accountId,
      loanSettlementAccountId |-> settlementAccountId,
      type |-> IF tx.type = "" THEN "expense" ELSE tx.type,
      loanType |-> IF tx.loanType # "" THEN tx.loanType
                   ELSE IF tx.type = "loan"
                        THEN (IF LowerIncludesBorrow(tx.categoryName) THEN "borrow" ELSE "lend")
                        ELSE "",
      loanStatus |-> IF tx.loanStatus # "" THEN tx.loanStatus
                     ELSE IF tx.type = "loan" THEN "open" ELSE ""]

RECURSIVE ImportTransactions(_, _, _, _)
ImportTransactions(D, accs, txs, n) ==
  IF n = 0 THEN D
  ELSE LET sofar == ImportTransactions(D, accs, txs, n - 1)
       IN [sofar EXCEPT !.transactions =
                          Put(@, sofar.nextId.tx, ImportedTransaction(sofar, accs, txs[n])),
                        !.nextId.tx = @ + 1]

(* The recomputation of a bundle without accounts: every stored            *)
(* transaction with an account adds its primary delta to that account and  *)
(* its settlement delta to its settlement account.  An id in the map that  *)
(* is no account's comes after the accounts, and updateAccount throws on   *)
(* it when the accounts have been written.                                 *)
RECURSIVE RecomputedSum(_, _, _)
RecomputedSum(txs, ids, a) ==
  IF ids = {} THEN 0
  ELSE LET k == CHOOSE x \in ids : TRUE
       IN (IF txs[k].accountId = NoId THEN 0
           ELSE (IF txs[k].accountId = a THEN getBalanceDelta(txs[k]) ELSE 0)
                + (IF txs[k].loanSettlementAccountId = a
                   THEN getSettlementDelta(txs[k]) ELSE 0))
          + RecomputedSum(txs, ids \ {k}, a)

RecomputeBalances_PrimaryOnly(D) ==
  [D EXCEPT !.accounts =
     [a \in DOMAIN D.accounts |->
        [D.accounts[a] EXCEPT !.balance =
           BalanceOf(D.accounts[a])
           + RecomputedSum([k \in DOMAIN D.transactions |->
                              [D.transactions[k] EXCEPT !.loanStatus = "open"]],
                           DOMAIN D.transactions, a)]]]

RecomputeBalances(D) ==
  LET booked == {k \in DOMAIN D.transactions : D.transactions[k].accountId # NoId}
      keys == {D.transactions[k].accountId : k \in booked}
              \cup ({D.transactions[k].loanSettlementAccountId : k \in booked} \ {NoId})
  IN [D EXCEPT !.accounts =
                 [a \in DOMAIN D.accounts |->
                    [D.accounts[a] EXCEPT !.balance =
                       BalanceOf(D.accounts[a])
                       + RecomputedSum(D.transactions, DOMAIN D.transactions, a)]],
               !.err = IF keys \subseteq DOMAIN D.accounts THEN "none"
                       ELSE "Account not found"]

importData_AlwaysRecomputes(D, data) ==
  LET D1 == ImportSettings(D, data)
      D2 == ImportCategories(D1, data.categories)
      D3 == ImportAccounts(D2, data.accounts)
      D4 == IF Len(data.transactions) > 0 /\ ~hasAccounts(data)
            THEN InferredAccounts(D3, data.transactions)
            ELSE D3
      D5 == ImportTransactions(D4, data.accounts, data.transactions,
                               Len(data.transactions))
  IN IF Len(data.transactions) > 0
     THEN RecomputeBalances(D5)
     ELSE D5

importData(D, data) ==
  LET D1 == ImportSettings(D, data)
      D2 == ImportCategories(D1, data.categories)
      D3 == ImportAccounts(D2, data.accounts)
      D4 == IF Len(data.transactions) > 0 /\ ~hasAccounts(data)
            THEN InferredAccounts(D3, data.transactions)
            ELSE D3
      D5 == ImportTransactions(D4, data.accounts, data.transactions,
                               Len(data.transactions))
  IN IF ~hasAccounts(data) /\ Len(data.transactions) > 0
     THEN RecomputeBalances(D5)
     ELSE D5

(***************************************************************************)
(* The handlers as steps of the store.                                     *)
(***************************************************************************)
createAccount(account) ==
  /\ Commit(AddAccount(Db, account))
  /\ UNCHANGED <<transfers, backup, calls>>

saveSettings(updates) ==
  /\ Commit(updateSettings(Db, updates))
  /\ UNCHANGED <<transfers, backup, calls>>

(* main.tsx runs initializeDatabase when the app starts.                   *)
startApp ==
  /\ Commit(initializeDatabase(Db))
  /\ UNCHANGED <<transfers, backup, calls>>

(* useExportData: the bundle that is downloaded, as JSON.parse reads it    *)
(* back.                                                                   *)
Bundle(D) ==
  [settings |-> << [currencySymbol |-> getSettings(D).currencySymbol,
                    isSetupComplete |-> IF getSettings(D).isSetupComplete
                                        THEN "true" ELSE "false"] >>,
   categories |-> getCategories(D),
   transactions |-> getTransactions(D),
   accounts |-> getAccounts(D)]

exportData ==
  /\ Commit(EnsureSettings(Db))
  /\ backup' = [taken |-> TRUE, data |-> Bundle(Db)]
  /\ UNCHANGED <<transfers, calls>>

(* useImportData: resetAllData, then importData of the parsed file.        *)
useImportData(data) ==
  /\ Commit(importData(resetAllData(Db), data))
  /\ UNCHANGED <<transfers, backup, calls>>

(***************************************************************************)
(* Backup and restore: accounts are added (nothing keeps two of them from  *)
(* having one name), the settings are changed, a transaction is booked, the*)
(* app is restarted, the store is exported, and the exported bundle or a   *)
(* file that was not exported from this store is imported.                 *)
(***************************************************************************)
MaxAccounts == 3
MaxRestores == 2

EmptyDb ==
  [settings |-> EmptyTable, categories |-> EmptyTable, accounts |-> EmptyTable,
   transactions |-> EmptyTable,
   nextId |-> [tx |-> 1, account |-> 1, category |-> 1, transfer |-> 1, settings |-> 1],
   opening |-> EmptyTable, err |-> "none"]

InitBackup ==
  /\ settings = initializeDatabase(EmptyDb).settings
  /\ categories = initializeDatabase(EmptyDb).categories
  /\ accounts = initializeDatabase(EmptyDb).accounts
  /\ transactions = EmptyTable
  /\ transfers = EmptyTable
  /\ nextId = initializeDatabase(EmptyDb).nextId
  /\ opening = initializeDatabase(EmptyDb).opening
  /\ err = "none"
  /\ backup = NoBackup
  /\ calls = NoCalls
  /\ last = Call("init", NoId, NoPrior)

NewAccounts == {[name |-> "Bank", type |-> "Bank", balance |-> b] : b \in 1..MaxOpening}

SettingsUpdates == {[currencySymbol |-> "USD", isSetupComplete |-> AbsentStr]}

BackupForm(a, type) ==
  [amount |-> 1, type |-> type, loanType |-> "", loanStatus |-> "",
   accountId |-> a, loanSettlementAccountId |-> NoId, paymentMethod |-> "Cash",
   categoryId |-> NoId, categoryName |-> ""]

FileRow(type, paymentMethod, amount) ==
  [id |-> NoId, amount |-> amount, type |-> type, loanType |-> "", loanStatus |-> "",
   accountId |-> NoId, loanSettlementAccountId |-> NoId,
   paymentMethod |-> paymentMethod, categoryId |-> NoId, categoryName |-> ""]

Files ==
  {[settings |-> <<>>, categories |-> <<>>, accounts |-> <<>>,
    transactions |-> << FileRow("expense", "Cash", 2), FileRow("income", "Bank", 1) >>],
   [settings |-> << [currencySymbol |-> "", isSetupComplete |-> "undefined"] >>,
    categories |-> << [id |-> NoId, name |-> "Loan", color |-> "#000000", type |-> ""] >>,
    accounts |-> <<>>, transactions |-> <<>>]}

NextBackup ==
  \/ /\ Cardinality(DOMAIN accounts) < MaxAccounts
     /\ \E account \in NewAccounts : createAccount(account)
     /\ last' = Call("createAccount", NoId, NoPrior)
  \/ /\ \E updates \in SettingsUpdates : saveSettings(updates)
     /\ last' = Call("updateSettings", NoId, NoPrior)
  \/ /\ nextId.tx < MaxTx
     /\ createTransaction(BackupForm(FirstByName(accounts, "Cash"), "income"))
     /\ last' = Call("createTransaction", NoId, NoPrior)
  \/ /\ startApp
     /\ last' = Call("initializeDatabase", NoId, NoPrior)
  \/ /\ exportData
     /\ last' = Call("exportData", NoId, NoPrior)
  \/ /\ backup.taken
     /\ nextId.settings <= MaxRestores + 1
     /\ useImportData(backup.data)
     /\ last' = Call("importBackup", NoId, NoPrior)
  \/ /\ nextId.settings <= MaxRestores + 1
     /\ \E data \in Files : useImportData(data)
     /\ last' = Call("importFile", NoId, NoPrior)

SpecBackup == InitBackup /\ [][NextBackup]_vars

(* C10 as claimed: after the exported bundle has been imported through     *)
(* resetAllData and importData, the currency symbol and the setup-complete *)
(* flag are those exported, every exported category is there with its      *)
(* name, color and type, and every exported account is there under its     *)
(* name with exactly its exported balance.                                 *)
C10_AsClaimed ==
  last.op = "importBackup"
    => /\ getSettings(Db).currencySymbol = backup.data.settings[1].currencySymbol
       /\ getSettings(Db).isSetupComplete
            = (backup.data.settings[1].isSetupComplete = "true")
       /\ \A i \in 1..Len(backup.data.categories) :
            \E k \in DOMAIN categories :
              /\ categories[k].name = backup.data.categories[i].name
              /\ categories[k].color = backup.data.categories[i].color
              /\ categories[k].type = backup.data.categories[i].type
       /\ \A i \in 1..Len(backup.data.accounts) :
            \E k \in DOMAIN accounts :
              /\ accounts[k].name = backup.data.accounts[i].name
              /\ BalanceOf(accounts[k]) = backup.data.accounts[i].balance

(***************************************************************************)
(* Import and reset on a store in any state: importData is called after    *)
(* resetAllData by useImportData and on the store as it is by a caller of  *)
(* IStorage.importData; useResetAllData calls resetAllData alone.          *)
(***************************************************************************)
importBundle(data) ==
  /\ Commit(importData(Db, data))
  /\ UNCHANGED <<transfers, backup, calls>>

useResetAllData ==
  /\ Commit(resetAllData(Db))
  /\ UNCHANGED <<transfers, backup, calls>>

(* What importData found when it began, and the bundle it was given.       *)
Found(D) ==
  [accounts |-> D.accounts, transactions |-> D.transactions, transfers |-> transfers]

ImportCall(op, data, found) ==
  [data |-> data] @@ [Call(op, NoId, NoPrior) EXCEPT !.seen = found]

MaxImported == 4

FileLoan(paymentMethod, amount, loanType, loanStatus) ==
  [FileRow("loan", paymentMethod, amount)
     EXCEPT !.loanType = loanType, !.loanStatus = loanStatus]

FileAccount(id, name, balance) ==
  [id |-> id, name |-> name,
   type |-> IF name = "Cash" THEN "Cash" ELSE "Bank", balance |-> balance]

NoAccountFiles ==
  {[settings |-> <<>>, categories |-> <<>>, accounts |-> <<>>,
    transactions |-> << FileRow("expense", "Cash", 2), FileRow("income", "Bank", 1) >>],
   [settings |-> <<>>, categories |-> <<>>, accounts |-> <<>>,
    transactions |-> << FileLoan("Bank", 2, "borrow", "open"),
                        FileLoan("bKash", 1, "lend", "settled") >>]}

AccountFiles ==
  {[settings |-> <<>>, categories |-> <<>>,
    accounts |-> << FileAccount(7, "Bank", 2) >>,
    transactions |-> << [FileRow("expense", "", 1) EXCEPT !.accountId = 7],
                        FileRow("income", "Cash", 2) >>],
   [settings |-> <<>>, categories |-> <<>>,
    accounts |-> << FileAccount(1, "Cash", 1), FileAccount(2, "Bank", 1),
                    FileAccount(3, "Bank", 2) >>,
    transactions |-> <<>>]}

ImportFiles == NoAccountFiles \cup AccountFiles

NextImport ==
  \/ /\ Cardinality(DOMAIN accounts) < MaxAccounts
     /\ \E account \in NewAccounts : createAccount(account)
     /\ last' = Call("createAccount", NoId, NoPrior)
  \/ /\ nextId.tx < MaxTx
     /\ createTransaction(BackupForm(FirstByName(accounts, "Cash"), "income"))
     /\ last' = Call("createTransaction", NoId, NoPrior)
  \/ /\ nextId.settings <= MaxRestores + 1
     /\ useResetAllData
     /\ last' = Call("resetAllData", NoId, NoPrior)
  \/ /\ nextId.settings <= MaxRestores + 1
     /\ nextId.tx <= MaxImported
     /\ \E data \in ImportFiles :
          /\ useImportData(data)
          /\ last' = ImportCall("useImportData", data, Found(resetAllData(Db)))
  \/ /\ nextId.tx <= MaxImported
     /\ \E data \in ImportFiles :
          /\ importBundle(data)
          /\ last' = ImportCall("importData", data, Found(Db))

SpecImport == InitBackup /\ [][NextImport]_vars

Imported == last.op \in {"importData", "useImportData"}

PaymentMethods(data) ==
  {data.transactions[i].paymentMethod : i \in 1..Len(data.transactions)}

ByPaymentMethodOnly(data) ==
  /\ ~hasAccounts(data)
  /\ Len(data.transactions) > 0
  /\ \A i \in 1..Len(data.transactions) :
       /\ data.transactions[i].paymentMethod # ""
       /\ data.transactions[i].accountId = NoId
       /\ data.transactions[i].loanSettlementAccountId = NoId

(* C11: after importData of a bundle without accounts, whose transactions  *)
(* name their account by paymentMethod only, into a freshly reset store,   *)
(* there is one account of each payment method's name, and its balance is  *)
(* the sum of the primary and settlement deltas of the stored transactions *)
(* that were resolved to it.                                               *)
C11_InferredAccounts ==
  (last.op = "useImportData" /\ ByPaymentMethodOnly(last.data))
    => /\ err = "none"
       /\ Cardinality(DOMAIN transactions) = Len(last.data.transactions)
       /\ \A name \in PaymentMethods(last.data) :
            /\ Cardinality({a \in DOMAIN accounts : accounts[a].name = name}) = 1
            /\ \A a \in DOMAIN accounts :
                 accounts[a].name = name
                   => /\ BalanceOf(accounts[a])
                           = LedgerSum(transactions, DOMAIN transactions, a)
                      /\ \A k \in DOMAIN transactions :
                           transactions[k].paymentMethod = name
                             => transactions[k].accountId = a

(* The scenario of the specification, with 2 for 200 and 1 for 500.        *)
C11_Witness ==
  /\ last.op = "useImportData"
  /\ ByPaymentMethodOnly(last.data)
  /\ \E c, b \in DOMAIN accounts :
       /\ accounts[c].name = "Cash" /\ BalanceOf(accounts[c]) = 0 - 2
       /\ accounts[b].name = "Bank" /\ BalanceOf(accounts[b]) = 1
(* C12 as claimed: after importData of a bundle with no accounts and at    *)
(* least one transaction, whatever the store held before, every account's  *)
(* balance is the fold of the primary deltas (by accountId) and the         *)
(* settlement deltas (by loanSettlementAccountId) over all the stored      *)
(* transactions, independently of the balance it had before the import.    *)
C12_AsClaimed ==
  (Imported /\ ~hasAccounts(last.data) /\ Len(last.data.transactions) > 0)
    => \A a \in DOMAIN accounts :
         BalanceOf(accounts[a]) = LedgerSum(transactions, DOMAIN transactions, a)
AccountNames(data) == {data.accounts[i].name : i \in 1..Len(data.accounts)}

Supplied(data, name) ==
  {data.accounts[i].balance : i \in {j \in 1..Len(data.accounts) : data.accounts[j].name = name}}

AsFound(a) ==
  /\ Has(last.seen.accounts, a)
  /\ BalanceOf(accounts[a]) = BalanceOf(last.seen.accounts[a])

SetupUpdates == {[currencySymbol |-> "USD", isSetupComplete |-> "true"]}

NextReset ==
  \/ /\ Cardinality(DOMAIN accounts) < MaxAccounts
     /\ \E account \in NewAccounts : createAccount(account)
     /\ last' = Call("createAccount", NoId, NoPrior)
  \/ /\ \E updates \in SetupUpdates : saveSettings(updates)
     /\ last' = Call("updateSettings", NoId, NoPrior)
  \/ /\ nextId.tx < MaxTx
     /\ createTransaction(BackupForm(FirstByName(accounts, "Cash"), "income"))
     /\ last' = Call("createTransaction", NoId, NoPrior)
  \/ /\ nextId.transfer < MaxTransfers
     /\ \E from \in DOMAIN accounts, to \in DOMAIN accounts :
          /\ transferBetweenAccounts(from, to, Decimal(1))
          /\ last' = Call("transferBetweenAccounts", NoId, NoPrior)
  \/ /\ nextId.tx < MaxTx
     /\ \E data \in Files : importBundle(data)
     /\ last' = Call("importData", NoId, NoPrior)
  \/ /\ nextId.settings <= MaxRestores + 1
     /\ useResetAllData
     /\ last' = Call("resetAllData", NoId, NoPrior)

SpecReset == InitBackup /\ [][NextReset]_vars

(* C14: after resetAllData there is no transaction, the one account is     *)
(* Cash of type Cash with balance 0, the one settings record has           *)
(* isSetupComplete false, and the categories are the default categories.   *)
C14_ResetReinitializes ==
  last.op = "resetAllData"
    => /\ transactions = EmptyTable
       /\ Cardinality(DOMAIN accounts) = 1
       /\ \A a \in DOMAIN accounts : accounts[a] = DefaultAccount
       /\ Cardinality(DOMAIN settings) = 1
       /\ \A k \in DOMAIN settings : settings[k].isSetupComplete = FALSE
       /\ Cardinality(DOMAIN categories) = Len(DefaultCategories)
       /\ {categories[k] : k \in DOMAIN categories}
            = {DefaultCategories[i] : i \in 1..Len(DefaultCategories)}

(* A reset of a store that held a second account, a transaction, an        *)
(* imported category and a finished setup.                                 *)
C14_Witness ==
  /\ last.op = "resetAllData"
  /\ nextId.account > 3
  /\ nextId.tx > 1
  /\ nextId.category > 2 * Len(DefaultCategories) + 1
  /\ \A k \in DOMAIN settings : k > 1 /\ settings[k].currencySymbol = "BDT"

(* C15 as claimed: after resetAllData no transfer is stored.               *)
C15_AsClaimed ==
  last.op = "resetAllData" => transfers = EmptyTable
(***************************************************************************)
(* The two delta calculators on one stored transaction of any shape: a     *)
(* type, loanType or loanStatus that is missing ("") or not one the        *)
(* application writes ("transfer", "gift", "pending") reaches them through *)
(* an imported file, whose rows are stored as they are.                    *)
(***************************************************************************)
DeltaInputs ==
  [amount : Amounts, type : {"", "expense", "income", "loan", "transfer"},
   loanType : {"", "borrow", "lend", "gift"},
   loanStatus : {"", "open", "settled", "pending"},
   accountId : {CashId}, loanSettlementAccountId : {NoId, BankId},
   paymentMethod : {"Cash"}, categoryId : {NoId}, categoryName : {""}]

InitDelta ==
  /\ settings = [k \in {1} |-> DefaultSettings]
  /\ categories = FreshCategories
  /\ accounts = [k \in {CashId, BankId} |->
                   IF k = CashId THEN DefaultAccount
                   ELSE [name |-> "Bank", type |-> "Bank", balance |-> 0]]
  /\ opening = [k \in {CashId, BankId} |-> 0]
  /\ \E tx \in DeltaInputs : transactions = [k \in {1} |-> tx]
  /\ transfers = EmptyTable
  /\ nextId = [tx |-> 2, account |-> 3, category |-> Len(DefaultCategories) + 1,
               transfer |-> 1, settings |-> 2]
  /\ err = "none"
  /\ backup = NoBackup
  /\ calls = NoCalls
  /\ last = Call("init", NoId, NoPrior)

Returned(op, id, value) ==
  [Call(op, id, NoPrior) EXCEPT !.amount = Decimal(value)]

NextDelta ==
  \/ \E id \in DOMAIN transactions :
       /\ last' = Returned("getBalanceDelta", id, getBalanceDelta(transactions[id]))
       /\ UNCHANGED <<store, err, opening, backup, calls>>
  \/ \E id \in DOMAIN transactions :
       /\ last' = Returned("getSettlementDelta", id, getSettlementDelta(transactions[id]))
       /\ UNCHANGED <<store, err, opening, backup, calls>>

SpecDelta == InitDelta /\ [][NextDelta]_vars

(* C18: getBalanceDelta returns +amount for an income, -amount for an      *)
(* expense, +amount for a loan that is a borrow, -amount for a loan that   *)
(* is a lend, and -amount for a missing or unrecognised type.              *)
C18_BalanceDelta ==
  last.op = "getBalanceDelta"
    => LET tx == transactions[last.id]
           delta == last.amount.v
       IN /\ tx.type = "income" => delta = tx.amount
          /\ tx.type = "expense" => delta = 0 - tx.amount
          /\ (tx.type = "loan" /\ tx.loanType = "borrow") => delta = tx.amount
          /\ (tx.type = "loan" /\ tx.loanType = "lend") => delta = 0 - tx.amount
          /\ tx.type \notin {"income", "expense", "loan"} => delta = 0 - tx.amount

C18_Witness ==
  /\ last.op = "getBalanceDelta"
  /\ transactions[last.id].type = "loan"
  /\ transactions[last.id].loanType = "borrow"
  /\ transactions[last.id].amount = 2
  /\ last.amount = Decimal(2)

(* C19 as claimed: getSettlementDelta returns -amount for a settled loan   *)
(* that is a borrow, +amount for a settled loan that is a lend, and 0 in   *)
(* every other case: a type that is not loan, a loanStatus that is not     *)
(* settled, or a loanType that is neither borrow nor lend.                 *)
C19_AsClaimed ==
  last.op = "getSettlementDelta"
    => LET tx == transactions[last.id]
           delta == last.amount.v
           settledLoan == tx.type = "loan" /\ tx.loanStatus = "settled"
       IN /\ (settledLoan /\ tx.loanType = "borrow") => delta = 0 - tx.amount
          /\ (settledLoan /\ tx.loanType = "lend") => delta = tx.amount
          /\ ~(settledLoan /\ tx.loanType \in {"borrow", "lend"}) => delta = 0
(***************************************************************************)
(* Loans created and updated with and without a settlement account, on an  *)
(* account given by its id or by its name only (paymentMethod).  request   *)
(* is what the call works on before its defaults: the input of a create,   *)
(* the stored row merged with the patch of an update.                      *)
(***************************************************************************)
SettleInputs ==
  [amount : {1}, type : {"expense", "loan"}, loanType : {"borrow", "lend"},
   loanStatus : {"open", "settled"}, accountId : {NoId, CashId, BankId, MissingId},
   loanSettlementAccountId : {NoId, BankId}, paymentMethod : {"", "Cash", "Bank"},
   categoryId : {NoId}, categoryName : {""}]

SettlePatches ==
  [amount : {Absent}, type : {AbsentStr}, loanType : {AbsentStr},
   loanStatus : {"open", "settled", AbsentStr}, accountId : {Absent, NoId, BankId},
   loanSettlementAccountId : {Absent, NoId}, paymentMethod : {AbsentStr, "Bank"},
   categoryId : {Absent}, categoryName : {AbsentStr}]

SettleCall(op, id, request) ==
  [request |-> request] @@ Call(op, id, NoPrior)

NextSettle ==
  \/ /\ nextId.tx = 1
     /\ \E input \in SettleInputs :
          /\ createTransaction(input)
          /\ last' = SettleCall("createTransaction", nextId.tx, input)
  \/ \E id \in DOMAIN transactions, patch \in SettlePatches :
       /\ updateTransaction(id, patch)
       /\ last' = SettleCall("updateTransaction", id, Merge(transactions[id], patch))

SpecSettle == InitTx /\ [][NextSettle]_vars

(* C20 as claimed: after createTransaction or updateTransaction of a       *)
(* settled loan with no settlement account supplied, the persisted         *)
(* loanSettlementAccountId is the persisted accountId, whether the         *)
(* accountId was given or was resolved from paymentMethod.                 *)
C20_AsClaimed ==
  ( /\ last.op \in {"createTransaction", "updateTransaction"}
    /\ err = "none"
    /\ last.request.type = "loan"
    /\ last.request.loanStatus = "settled"
    /\ last.request.loanSettlementAccountId = NoId )
    => transactions[last.id].loanSettlementAccountId = transactions[last.id].accountId
(***************************************************************************)
(* The call whose request is `last'.request` returned and left the row     *)
(* transactions'[id]; the row it replaced, when there was one, is          *)
(* transactions[id].                                                       *)
(***************************************************************************)
Persisted(id) ==
  /\ last'.op \in {"createTransaction", "updateTransaction"}
  /\ last'.id = id
  /\ err' = "none"

NoRow == [accountId |-> NoId, loanSettlementAccountId |-> NoId]

Replaced(id) == IF Has(transactions, id) THEN transactions[id] ELSE NoRow

(* C21: after createTransaction or updateTransaction, a persisted          *)
(* accountId that references an existing account has that account's name   *)
(* as the persisted paymentMethod (an explicit accountId overrides a       *)
(* conflicting paymentMethod); and when no accountId was given but the     *)
(* paymentMethod is the name of an existing account, the persisted         *)
(* accountId is that account's id and its balance received the primary     *)
(* delta of the persisted row.                                             *)
C21_AccountAndPaymentMethod ==
  [][\A id \in TxIds :
       Persisted(id) =>
         LET t == transactions'[id]
             r == last'.request
             a == FirstByName(accounts, r.paymentMethod)
         IN /\ Has(accounts, t.accountId)
                 => t.paymentMethod = accounts[t.accountId].name
            /\ (r.accountId = NoId /\ r.paymentMethod # "" /\ a # NoId)
                 => /\ t.accountId = a
                    /\ BalanceOf(accounts'[a])
                         = BalanceOf(accounts[a]) + NetEffect(Replaced(id), t, a)]_vars

(* A row was given paymentMethod 'Bank' and no accountId: it is stored on   *)
(* account 2 under the name 'Bank' and the Bank balance moved.             *)
C21_Witness ==
  /\ err = "none"
  /\ last.op \in {"createTransaction", "updateTransaction"}
  /\ last.request.accountId = NoId
  /\ last.request.paymentMethod = "Bank"
  /\ transactions[last.id].accountId = BankId
  /\ transactions[last.id].paymentMethod = "Bank"
  /\ BalanceOf(accounts[BankId]) # MaxOpening

(***************************************************************************)
(* Updates that change the category.  The categories are the eighteen      *)
(* seeded ones under the ids bulkAdd gave them: 'Food' (expense) is 1,     *)
(* 'Salary' (income) 11, 'Borrow' and 'Lend' (loan) 17 and 18; no category *)
(* has the id 19.  One row is created, without a category or under         *)
(* 'Salary', and then patched: with a category, a type, both or neither,   *)
(* and with or without a new amount and account.                           *)
(***************************************************************************)
FoodId == 1
SalaryId == 11
BorrowId == 17
LendId == 18
NoSuchCategory == 19

CategoryInputs ==
  [amount : {1}, type : {"", "expense", "income"}, loanType : {""},
   loanStatus : {""}, accountId : {CashId, BankId},
   loanSettlementAccountId : {NoId}, paymentMethod : {""},
   categoryId : {NoId, SalaryId}, categoryName : {""}]

CategoryPatches ==
  [amount : {Absent, MaxAmount}, type : {AbsentStr, "expense", "income", "loan"},
   loanType : {AbsentStr}, loanStatus : {AbsentStr, "settled"},
   accountId : {Absent, BankId}, loanSettlementAccountId : {Absent},
   paymentMethod : {AbsentStr},
   categoryId : {Absent, FoodId, SalaryId, BorrowId, LendId, NoSuchCategory},
   categoryName : {AbsentStr}]

NextCategory ==
  \/ /\ nextId.tx = 1
     /\ \E input \in CategoryInputs :
          /\ createTransaction(input)
          /\ last' = SettleCall("createTransaction", nextId.tx, input)
  \/ \E id \in DOMAIN transactions, patch \in CategoryPatches :
       /\ updateTransaction(id, patch)
       /\ last' = SettleCall("updateTransaction", id, Merge(transactions[id], patch))

SpecCategory == InitTx /\ [][NextCategory]_vars

(* C22: after an updateTransaction whose merged categoryId differs from    *)
(* the stored one and references an existing category, the persisted       *)
(* categoryName and type are that category's name and type, also when the  *)
(* patch carries a type of its own, and every balance moves by the deltas  *)
(* of the row with that resulting type.                                    *)
C22_CategoryDecidesType ==
  [][\A id \in TxIds :
       ( /\ UpdateStep(id)
         /\ last'.request.categoryId # NoId
         /\ last'.request.categoryId # transactions[id].categoryId
         /\ Has(categories, last'.request.categoryId) )
       => LET cat == categories[last'.request.categoryId]
              t   == transactions'[id]
          IN /\ t.categoryName = cat.name
             /\ t.type = cat.type
             /\ \A x \in DOMAIN accounts :
                  BalanceOf(accounts'[x])
                    = BalanceOf(accounts[x]) + NetEffect(transactions[id], t, x)]_vars

(* A patch {categoryId: 1, type: 'income'} was applied: the row is stored  *)
(* as an expense under 'Food' and its account is below its opening         *)
(* balance.                                                                *)
C22_Witness ==
  /\ last.op = "updateTransaction"
  /\ err = "none"
  /\ last.request.categoryId = FoodId
  /\ last.request.type = "income"
  /\ transactions[last.id].type = "expense"
  /\ transactions[last.id].categoryName = "Food"
  /\ transactions[last.id].accountId = CashId
  /\ BalanceOf(accounts[CashId]) < 0

(***************************************************************************)
(* Import of bundles whose transactions carry account ids.  The bundles:   *)
(* one with the accounts 1 'Cash' and 2 'Bank', transactions on both of    *)
(* these ids and categories that repeat a name; one that lists only the    *)
(* account 1 'Cash' while a transaction still carries the id 2 (a bundle   *)
(* exported after account 2 was deleted); and bundles without accounts     *)
(* whose transactions have a paymentMethod only, no paymentMethod at all,  *)
(* or an account id next to the paymentMethod.  They are imported into the *)
(* store as it is and after a reset, before and after accounts were added. *)
(***************************************************************************)
FileCategory(name, color, type) ==
  [id |-> NoId, name |-> name, color |-> color, type |-> type]

OnAccount(row, accountId, settlementAccountId) ==
  [row EXCEPT !.accountId = accountId,
              !.loanSettlementAccountId = settlementAccountId]

ListedFile ==
  [settings |-> <<>>,
   categories |-> << FileCategory("Food", "#000000", "expense"),
                     FileCategory("Gift", "#111111", ""),
                     FileCategory("Gift", "#222222", "income") >>,
   accounts |-> << FileAccount(1, "Cash", 1), FileAccount(2, "Bank", 2) >>,
   transactions |-> << OnAccount(FileRow("expense", "", 1), 2, NoId),
                       OnAccount(FileLoan("Cash", 1, "lend", "settled"), 1, 2) >>]

UnlistedFile ==
  [settings |-> <<>>, categories |-> <<>>,
   accounts |-> << FileAccount(1, "Cash", 1) >>,
   transactions |-> << OnAccount(FileRow("expense", "Bank", 1), 2, NoId) >>]

RemapFiles ==
  {ListedFile, UnlistedFile,
   [settings |-> <<>>, categories |-> <<>>, accounts |-> <<>>,
    transactions |-> << FileRow("income", "Bank", 1), FileRow("expense", "Cash", 1) >>],
   [settings |-> <<>>, categories |-> <<>>, accounts |-> <<>>,
    transactions |-> << FileRow("income", "", 1) >>],
   [settings |-> <<>>, categories |-> <<>>, accounts |-> <<>>,
    transactions |-> << OnAccount(FileRow("income", "Cash", 1), 2, NoId) >>]}

FoundWithCategories(D) == [categories |-> D.categories] @@ Found(D)

NextRemap ==
  \/ /\ Cardinality(DOMAIN accounts) < MaxAccounts
     /\ \E account \in NewAccounts : createAccount(account)
     /\ last' = Call("createAccount", NoId, NoPrior)
  \/ /\ nextId.settings <= MaxRestores + 1
     /\ nextId.tx <= MaxImported
     /\ \E data \in RemapFiles :
          /\ useImportData(data)
          /\ last' = ImportCall("useImportData", data,
                                FoundWithCategories(resetAllData(Db)))
  \/ /\ nextId.tx <= MaxImported
     /\ \E data \in RemapFiles :
          /\ importBundle(data)
          /\ last' = ImportCall("importData", data, FoundWithCategories(Db))

SpecRemap == InitBackup /\ [][NextRemap]_vars

(* The key under which importData stored the i-th transaction of the       *)
(* bundle.                                                                 *)
InsertedKey(i) == nextId.tx - Len(last.data.transactions) + i - 1

RefersToAccount(id) == id = NoId \/ Has(accounts, id)

(* C23 as claimed: after importData has completed, for every bundle, the   *)
(* accountId and the loanSettlementAccountId of each inserted transaction  *)
(* are null or the id of an existing account, and when the old id is       *)
(* listed in the bundle's accounts it is the id of the account that has    *)
(* that bundle account's name.                                             *)
C23_AsClaimed ==
  (Imported /\ err = "none")
    => \A i \in 1..Len(last.data.transactions) :
         LET old == last.data.transactions[i]
             t   == transactions[InsertedKey(i)]
         IN /\ RefersToAccount(t.accountId)
            /\ RefersToAccount(t.loanSettlementAccountId)
            /\ old.accountId \in OldIds(last.data.accounts)
                 => /\ Has(accounts, t.accountId)
                    /\ accounts[t.accountId].name
                         = OldName(last.data.accounts, old.accountId)
            /\ old.loanSettlementAccountId \in OldIds(last.data.accounts)
                 => /\ Has(accounts, t.loanSettlementAccountId)
                    /\ accounts[t.loanSettlementAccountId].name
                         = OldName(last.data.accounts, old.loanSettlementAccountId)

UniqueNames(table) ==
  \A j, k \in DOMAIN table : table[j].name = table[k].name => j = k

NamesIn(rows) == {rows[i].name : i \in 1..Len(rows)}

(* C24: importData preserves the uniqueness of names.  When no two         *)
(* categories and no two accounts had one name before the import, none     *)
(* have afterwards, for every bundle, also one that repeats a name; and a  *)
(* category or account whose name the bundle has keeps its id and is       *)
(* updated with the bundle's values instead of being added again.          *)
C24_NamesStayUnique ==
  (Imported /\ UniqueNames(last.seen.categories) /\ UniqueNames(last.seen.accounts))
    => /\ UniqueNames(categories)
       /\ UniqueNames(accounts)
       /\ \A k \in DOMAIN last.seen.categories :
            /\ Has(categories, k)
            /\ categories[k].name = last.seen.categories[k].name
            /\ categories[k].name \in NamesIn(last.data.categories)
                 => categories[k].color
                      = LastOfName(last.data.categories, categories[k].name).color
       /\ \A k \in DOMAIN last.seen.accounts :
            /\ Has(accounts, k)
            /\ accounts[k].name = last.seen.accounts[k].name
            /\ accounts[k].name \in NamesIn(last.data.accounts)
                 => BalanceOf(accounts[k]) \in Supplied(last.data, accounts[k].name)

(* The bundle that has 'Gift' twice and 'Food', 'Cash' and 'Bank' once was *)
(* imported into a store with one 'Cash' and one 'Bank': there is one      *)
(* 'Gift', 'Food' is still category 1 and has the bundle's colour, and     *)
(* 'Bank' has its old id and the bundle's balance.                         *)
C24_Witness ==
  /\ last.op = "importData"
  /\ last.data = ListedFile
  /\ UniqueNames(last.seen.accounts)
  /\ Cardinality({k \in DOMAIN categories : categories[k].name = "Gift"}) = 1
  /\ categories[FoodId].name = "Food"
  /\ categories[FoodId].color = "#000000"
  /\ \E b \in DOMAIN last.seen.accounts :
       /\ last.seen.accounts[b].name = "Bank"
       /\ BalanceOf(last.seen.accounts[b]) = 1
       /\ accounts[b].name = "Bank"
       /\ BalanceOf(accounts[b]) = 2

(* C29 as claimed: updateTransaction(id, {}) on a persisted transaction,   *)
(* in any reachable state, leaves every account balance unchanged and      *)
(* leaves the accountId and the loanSettlementAccountId of the transaction *)
(* unchanged.  The merge of the empty patch is the stored row itself.      *)
C29_AsClaimed ==
  [][\A id \in TxIds :
       (UpdateStep(id) /\ last'.request = transactions[id])
         => /\ \A a \in DOMAIN accounts :
                 BalanceOf(accounts'[a]) = BalanceOf(accounts[a])
            /\ transactions'[id].accountId = transactions[id].accountId
            /\ transactions'[id].loanSettlementAccountId
                 = transactions[id].loanSettlementAccountId]_vars

(***************************************************************************)
(* A transaction is created and deleted at once.  The store holds nothing  *)
(* or one earlier transaction; the created one is of any type, loan type   *)
(* and loan status, with any pair of primary and settlement account (none, *)
(* 1, 2 or the id 4 of no account) and any paymentMethod.                  *)
(***************************************************************************)
EarlierInputs ==
  {[amount |-> 1, type |-> "income", loanType |-> "", loanStatus |-> "",
    accountId |-> CashId, loanSettlementAccountId |-> NoId, paymentMethod |-> "",
    categoryId |-> NoId, categoryName |-> ""],
   [amount |-> 1, type |-> "loan", loanType |-> "lend", loanStatus |-> "settled",
    accountId |-> CashId, loanSettlementAccountId |-> BankId, paymentMethod |-> "",
    categoryId |-> NoId, categoryName |-> ""]}

UndoInputs ==
  [amount : 1..MaxAmount, type : {"", "expense", "income", "loan"},
   loanType : {"", "borrow", "lend"}, loanStatus : {"", "open", "settled"},
   accountId : {NoId, CashId, BankId, MissingId},
   loanSettlementAccountId : {NoId, CashId, BankId, MissingId},
   paymentMethod : {"", "Cash", "Bank"}, categoryId : {NoId}, categoryName : {""}]

CreateCall(input) ==
  [SettleCall("createTransaction", nextId.tx, input) EXCEPT !.seen = Snapshot]

NextUndo ==
  \/ /\ nextId.tx = 1
     /\ \E input \in EarlierInputs :
          /\ createTransaction(input)
          /\ last' = CreateCall(input)
  \/ /\ nextId.tx = MaxTx
     /\ \E input \in UndoInputs :
          /\ createTransaction(input)
          /\ last' = CreateCall(input)
  \/ /\ last.op = "createTransaction"
     /\ deleteTransaction(last.id)
     /\ last' = [last EXCEPT !.op = "deleteTransaction"]

SpecUndo == InitTx /\ [][NextUndo]_vars

(* C27: createTransaction followed at once by deleteTransaction of the id  *)
(* it returned leaves every account with the balance it had before the     *)
(* create and the transactions collection as it was, for every input.      *)
C27_CreateThenDelete ==
  last.op = "deleteTransaction"
    => /\ err = "none"
       /\ accounts = last.seen.accounts
       /\ transactions = last.seen.transactions

(* A settled loan booked on account 1 and settled on account 2 was created *)
(* next to an earlier transaction and deleted again.                       *)
C27_Witness ==
  /\ last.op = "deleteTransaction"
  /\ last.request.type = "loan"
  /\ last.request.loanStatus = "settled"
  /\ last.request.accountId = CashId
  /\ last.request.loanSettlementAccountId = BankId
  /\ last.seen.transactions # EmptyTable
  /\ transactions = last.seen.transactions
  /\ BalanceOf(accounts[CashId]) # opening[CashId]

(***************************************************************************)
(* Loans with missing loan fields.  A transaction is created with or       *)
(* without a type, under no category or under 'Borrow' or 'Lend', with     *)
(* loanType and loanStatus given or missing; it is patched with a type, a  *)
(* category, and loan fields that are given or null; and bundles are       *)
(* imported whose loan rows lack the loan fields.  The values are those    *)
(* of the declared Transaction type.                                       *)
(***************************************************************************)
LoanInputs ==
  [amount : {1}, type : {"", "expense", "loan"}, loanType : {"", "borrow"},
   loanStatus : {"", "settled"}, accountId : {CashId},
   loanSettlementAccountId : {NoId}, paymentMethod : {""},
   categoryId : {NoId, LendId}, categoryName : {""}]

LoanPatches ==
  [amount : {Absent}, type : {AbsentStr, "loan"},
   loanType : {AbsentStr, ""}, loanStatus : {AbsentStr, ""},
   accountId : {Absent}, loanSettlementAccountId : {Absent},
   paymentMethod : {AbsentStr}, categoryId : {Absent, BorrowId},
   categoryName : {AbsentStr}]

LoanFiles ==
  {[settings |-> <<>>, categories |-> <<>>, accounts |-> <<>>,
    transactions |-> << [FileLoan("Cash", 1, "", "") EXCEPT !.categoryName = "Borrow"] >>],
   [settings |-> <<>>, categories |-> <<>>,
    accounts |-> << FileAccount(1, "Cash", 1) >>,
    transactions |-> << FileLoan("Cash", 1, "", "settled") >>]}

NextLoan ==
  \/ /\ nextId.tx = 1
     /\ \E input \in LoanInputs :
          /\ createTransaction(input)
          /\ last' = SettleCall("createTransaction", nextId.tx, input)
  \/ \E id \in DOMAIN transactions, patch \in LoanPatches :
       /\ updateTransaction(id, patch)
       /\ last' = SettleCall("updateTransaction", id, Merge(transactions[id], patch))
  \/ /\ nextId.tx <= MaxTx
     /\ \E data \in LoanFiles :
          /\ importBundle(data)
          /\ last' = ImportCall("importData", data, Found(Db))

SpecLoan == InitTx /\ [][NextLoan]_vars

deleteAccount(id) ==
  /\ accounts' = Drop(accounts, id)
  /\ err' = "none"
  /\ UNCHANGED <<settings, categories, transactions, transfers, nextId, opening, backup, calls>>

(***************************************************************************)
(* Accounts are added and deleted while transactions and transfers refer   *)
(* to them.                                                                *)
(***************************************************************************)
RefInputs ==
  [amount : {1}, type : {"income", "loan"}, loanType : {"lend"},
   loanStatus : {"settled"}, accountId : {NoId, CashId, BankId},
   loanSettlementAccountId : {NoId, BankId}, paymentMethod : {"", "Bank"},
   categoryId : {NoId}, categoryName : {""}]

RefPatches ==
  [amount : {Absent}, type : {AbsentStr}, loanType : {AbsentStr},
   loanStatus : {AbsentStr}, accountId : {Absent, NoId, CashId, BankId},
   loanSettlementAccountId : {Absent, NoId, CashId}, paymentMethod : {AbsentStr},
   categoryId : {Absent}, categoryName : {AbsentStr}]

NextRefs ==
  \/ /\ nextId.tx < MaxTx
     /\ \E input \in RefInputs : createTransaction(input)
     /\ last' = Call("createTransaction", nextId.tx, NoPrior)
  \/ /\ \E id \in DOMAIN transactions, patch \in RefPatches : updateTransaction(id, patch)
     /\ last' = Call("updateTransaction", NoId, NoPrior)
  \/ /\ \E id \in DOMAIN transactions : deleteTransaction(id)
     /\ last' = Call("deleteTransaction", NoId, NoPrior)
  \/ /\ nextId.account <= MaxAccounts
     /\ \E account \in NewAccounts : createAccount(account)
     /\ last' = Call("createAccount", NoId, NoPrior)
  \/ /\ \E id \in DOMAIN accounts : deleteAccount(id)
     /\ last' = Call("deleteAccount", NoId, NoPrior)
  \/ /\ nextId.transfer < MaxTransfers
     /\ \E from \in DOMAIN accounts, to \in DOMAIN accounts :
          transferBetweenAccounts(from, to, Decimal(1))
     /\ last' = Call("transferBetweenAccounts", NoId, NoPrior)

SpecRefs == InitTx /\ [][NextRefs]_vars

(* C30 as claimed: in every state reachable through createTransaction,     *)
(* updateTransaction, deleteTransaction, createAccount, deleteAccount and  *)
(* transferBetweenAccounts, the accountId and loanSettlementAccountId of   *)
(* every persisted transaction are null or the id of an existing account,  *)
(* and the fromAccountId and toAccountId of every persisted transfer are   *)
(* ids of existing accounts.                                               *)
C30_AsClaimed ==
  /\ \A k \in DOMAIN transactions :
       /\ RefersToAccount(transactions[k].accountId)
       /\ RefersToAccount(transactions[k].loanSettlementAccountId)
  /\ \A k \in DOMAIN transfers :
       /\ Has(accounts, transfers[k].fromAccountId)
       /\ Has(accounts, transfers[k].toAccountId)

(***************************************************************************)
(* The storage methods step by step.  A call runs from one await to the    *)
(* next in one step; between two steps of a call the other call in flight  *)
(* and deleteAccount can run.  The steps of a call up to its first read of *)
(* a balance (the lookups that resolve the request, and for                *)
(* createTransaction the add of the row) are one step; after it every      *)
(* getAccount, every db.accounts.update and every db.accounts.get of       *)
(* updateAccount is a step of its own.                                     *)
(*                                                                         *)
(* The balance writes a call has still to do are its jobs, in the order of *)
(* the code: the account and the delta to add to the balance read.         *)
(***************************************************************************)
MaxCalls == 3

Job(account, delta) ==
  IF account = NoId THEN <<>> ELSE << [account |-> account, delta |-> delta] >>

CreateJobs(t) ==
  Job(t.accountId, getBalanceDelta(t))
    \o Job(t.loanSettlementAccountId, getSettlementDelta(t))

UpdateJobs(existing, merged) ==
  (IF existing.accountId # NoId /\ existing.accountId = merged.accountId
   THEN Job(existing.accountId, getBalanceDelta(merged) - getBalanceDelta(existing))
   ELSE Job(existing.accountId, 0 - getBalanceDelta(existing))
          \o Job(merged.accountId, getBalanceDelta(merged)))
    \o
  (IF existing.loanSettlementAccountId # NoId
      /\ existing.loanSettlementAccountId = merged.loanSettlementAccountId
   THEN Job(existing.loanSettlementAccountId,
            getSettlementDelta(merged) - getSettlementDelta(existing))
   ELSE Job(existing.loanSettlementAccountId, 0 - getSettlementDelta(existing))
          \o Job(merged.loanSettlementAccountId, getSettlementDelta(merged)))

DeleteJobs(existing) ==
  Job(existing.accountId, 0 - getBalanceDelta(existing))
    \o Job(existing.loanSettlementAccountId, 0 - getSettlementDelta(existing))

(* Where a call goes on when `jobs` are the balance writes left to it:     *)
(* createTransaction returns after the last one, updateTransaction and     *)
(* deleteTransaction write the transactions table.                         *)
Continue(call, jobs) ==
  IF jobs # <<>> THEN [call EXCEPT !.pc = "read", !.jobs = jobs]
  ELSE IF call.op = "createTransaction" THEN Idle
  ELSE [call EXCEPT !.pc = "persist", !.jobs = jobs]

Started(p, call) ==
  calls' = [run |-> [calls.run EXCEPT ![p] = call], begun |-> calls.begun + 1]

Moved(p, call) == calls' = [calls EXCEPT !.run[p] = call]

Finished(p, outcome) ==
  /\ err' = outcome
  /\ IF calls.run[p].op = "idle" THEN Started(p, Idle) ELSE Moved(p, Idle)

CanBegin(p) == calls.run[p] = Idle /\ calls.begun < MaxCalls

beginCreateTransaction(p, input) ==
  /\ CanBegin(p)
  /\ LET t == ResolveAccount(
                 DefaultLoan(DefaultType(ResolveCategoryOnCreate(input, categories))),
                 accounts)
         call == Continue([Idle EXCEPT !.op = "createTransaction", !.id = nextId.tx],
                          CreateJobs(t))
     IN /\ transactions' = Put(transactions, nextId.tx, t)
        /\ nextId' = [nextId EXCEPT !.tx = @ + 1]
        /\ Started(p, call)
        /\ err' = IF call = Idle THEN "none" ELSE err
  /\ UNCHANGED <<settings, categories, accounts, transfers, opening, backup>>

beginUpdateTransaction(p, id, patch) ==
  /\ CanBegin(p)
  /\ IF ~Has(transactions, id)
     THEN Finished(p, "Transaction not found")
     ELSE LET existing == transactions[id]
              merged   == ResolveAccount(
                            DefaultLoan(
                              ResolveCategoryOnUpdate(existing, Merge(existing, patch),
                                                      categories)),
                            accounts)
          IN /\ Started(p, Continue([Idle EXCEPT !.op = "updateTransaction", !.id = id],
                                    UpdateJobs(existing, merged))
                              @@ [row |-> merged])
             /\ UNCHANGED err
  /\ UNCHANGED <<store, opening, backup>>

beginDeleteTransaction(p, id) ==
  /\ CanBegin(p)
  /\ Started(p, Continue([Idle EXCEPT !.op = "deleteTransaction", !.id = id],
                         IF Has(transactions, id)
                         THEN DeleteJobs(transactions[id]) ELSE <<>>))
  /\ UNCHANGED <<store, err, opening, backup>>

(* getAccount(id) of a balance write: an account that is not there is      *)
(* skipped.                                                                *)
readBalance(p) ==
  /\ calls.run[p].pc = "read"
  /\ LET call == calls.run[p]
         job  == Head(call.jobs)
     IN IF Has(accounts, job.account)
        THEN /\ Moved(p, [call EXCEPT !.pc = "write",
                                      !.read = BalanceOf(accounts[job.account])])
             /\ UNCHANGED err
        ELSE /\ Moved(p, Continue(call, Tail(call.jobs)))
             /\ err' = IF Continue(call, Tail(call.jobs)) = Idle THEN "none" ELSE err
  /\ UNCHANGED <<store, opening, backup>>

(* updateAccount, first await: db.accounts.update(id, {balance}) with the  *)
(* balance computed from the account that was read; Table.update of an     *)
(* absent key writes nothing.                                              *)
writeBalance_AddsToCurrent(p) ==
  /\ calls.run[p].pc = "write"
  /\ LET call == calls.run[p]
         job  == Head(call.jobs)
     IN /\ accounts' = AddToBalance(accounts, job.account, job.delta)
        /\ Moved(p, [call EXCEPT !.pc = "check"])
  /\ UNCHANGED <<settings, categories, transactions, transfers, nextId, err,
                 opening, backup>>

writeBalance(p) ==
  /\ calls.run[p].pc = "write"
  /\ LET call == calls.run[p]
         job  == Head(call.jobs)
     IN /\ accounts' = IF Has(accounts, job.account)
                       THEN [accounts EXCEPT ![job.account].balance = call.read + job.delta]
                       ELSE accounts
        /\ Moved(p, [call EXCEPT !.pc = "check"])
  /\ UNCHANGED <<settings, categories, transactions, transfers, nextId, err,
                 opening, backup>>

(* updateAccount, second await: db.accounts.get(id), and the throw when    *)
(* the account is not there.                                               *)
checkWritten(p) ==
  /\ calls.run[p].pc = "check"
  /\ LET call == calls.run[p]
         job  == Head(call.jobs)
     IN IF Has(accounts, job.account)
        THEN /\ Moved(p, Continue(call, Tail(call.jobs)))
             /\ err' = IF Continue(call, Tail(call.jobs)) = Idle THEN "none" ELSE err
        ELSE Finished(p, "Account not found")
  /\ UNCHANGED <<store, opening, backup>>

(* db.transactions.update(id, merged) and the get after it, or             *)
(* db.transactions.delete(id).                                             *)
persist(p) ==
  /\ calls.run[p].pc = "persist"
  /\ LET call == calls.run[p]
     IN IF call.op = "deleteTransaction"
        THEN /\ transactions' = Drop(transactions, call.id)
             /\ Finished(p, "none")
        ELSE IF Has(transactions, call.id)
        THEN /\ transactions' = [transactions EXCEPT ![call.id] = call.row]
             /\ Finished(p, "none")
        ELSE /\ UNCHANGED transactions
             /\ Finished(p, "Failed to update transaction")
  /\ UNCHANGED <<settings, categories, accounts, transfers, nextId, opening, backup>>

(* transferBetweenAccounts up to the await of getAccount(fromAccountId).   *)
beginTransfer(p, fromAccountId, toAccountId, amount) ==
  /\ CanBegin(p)
  /\ IF fromAccountId = toAccountId
     THEN Finished(p, "Transfer accounts must be different")
     ELSE IF InvalidAmount(amount)
     THEN Finished(p, "Transfer amount must be greater than 0")
     ELSE /\ Started(p, [Idle EXCEPT !.op = "transferBetweenAccounts", !.pc = "readTo",
                                     !.fromAccountId = fromAccountId,
                                     !.toAccountId = toAccountId,
                                     !.amount = amount.v,
                                     !.found = Has(accounts, fromAccountId),
                                     !.read = IF Has(accounts, fromAccountId)
                                              THEN BalanceOf(accounts[fromAccountId])
                                              ELSE 0])
          /\ UNCHANGED err
  /\ UNCHANGED <<store, opening, backup>>

(* getAccount(toAccountId), the two checks and the two new balances.       *)
readTo(p) ==
  /\ calls.run[p].pc = "readTo"
  /\ LET call == calls.run[p]
     IN IF ~call.found \/ ~Has(accounts, call.toAccountId)
        THEN Finished(p, "Account not found")
        ELSE IF InsufficientBalance([balance |-> call.read], call.amount)
        THEN Finished(p, "Insufficient balance in the selected account.")
        ELSE /\ Moved(p, [call EXCEPT
                            !.pc = "debit",
                            !.fromBalance = call.read - call.amount,
                            !.toBalance = BalanceOf(accounts[call.toAccountId])
                                            + call.amount])
             /\ UNCHANGED err
  /\ UNCHANGED <<store, opening, backup>>

SetBalance(accts, id, balance) ==
  IF Has(accts, id) THEN [accts EXCEPT ![id].balance = balance] ELSE accts

(* updateAccount(fromAccountId, {balance: fromBalance}).                   *)
debit(p) ==
  /\ calls.run[p].pc = "debit"
  /\ accounts' = SetBalance(accounts, calls.run[p].fromAccountId, calls.run[p].fromBalance)
  /\ Moved(p, [calls.run[p] EXCEPT !.pc = "debited"])
  /\ UNCHANGED <<settings, categories, transactions, transfers, nextId, err,
                 opening, backup>>

checkDebit(p) ==
  /\ calls.run[p].pc = "debited"
  /\ IF Has(accounts, calls.run[p].fromAccountId)
     THEN /\ Moved(p, [calls.run[p] EXCEPT !.pc = "credit"])
          /\ UNCHANGED err
     ELSE Finished(p, "Account not found")
  /\ UNCHANGED <<store, opening, backup>>

(* updateAccount(toAccountId, {balance: toBalance}).                       *)
credit(p) ==
  /\ calls.run[p].pc = "credit"
  /\ accounts' = SetBalance(accounts, calls.run[p].toAccountId, calls.run[p].toBalance)
  /\ Moved(p, [calls.run[p] EXCEPT !.pc = "credited"])
  /\ UNCHANGED <<settings, categories, transactions, transfers, nextId, err,
                 opening, backup>>

checkCredit_RestoresSource(p) ==
  /\ calls.run[p].pc = "credited"
  /\ IF Has(accounts, calls.run[p].toAccountId)
     THEN /\ Moved(p, [calls.run[p] EXCEPT !.pc = "add"])
          /\ UNCHANGED <<accounts, err>>
     ELSE /\ accounts' = AddToBalance(accounts, calls.run[p].fromAccountId,
                                       calls.run[p].amount)
          /\ Finished(p, "Account not found")
  /\ UNCHANGED <<settings, categories, transactions, transfers, nextId, opening, backup>>

checkCredit(p) ==
  /\ calls.run[p].pc = "credited"
  /\ IF Has(accounts, calls.run[p].toAccountId)
     THEN /\ Moved(p, [calls.run[p] EXCEPT !.pc = "add"])
          /\ UNCHANGED err
     ELSE Finished(p, "Account not found")
  /\ UNCHANGED <<store, opening, backup>>

(* db.transfers.add.                                                       *)
addTransfer(p) ==
  /\ calls.run[p].pc = "add"
  /\ LET call == calls.run[p]
     IN transfers' = Put(transfers, nextId.transfer,
                         [fromAccountId |-> call.fromAccountId,
                          toAccountId |-> call.toAccountId, amount |-> call.amount])
  /\ nextId' = [nextId EXCEPT !.transfer = @ + 1]
  /\ Finished(p, "none")
  /\ UNCHANGED <<settings, categories, accounts, transactions, opening, backup>>

(***************************************************************************)
(* Two calls in flight on the accounts 1 'Cash' (0) and 2 'Bank' (2): an   *)
(* income on Cash and a settled loan lent from Cash and settled on Bank    *)
(* are created, the amount or the account of a transaction is changed, a   *)
(* transaction is deleted, 1 is transferred between the two accounts, and  *)
(* an account is deleted.                                                  *)
(***************************************************************************)
StepInputs ==
  {[amount |-> 1, type |-> "income", loanType |-> "", loanStatus |-> "",
    accountId |-> CashId, loanSettlementAccountId |-> NoId, paymentMethod |-> "",
    categoryId |-> NoId, categoryName |-> ""],
   [amount |-> 1, type |-> "loan", loanType |-> "lend", loanStatus |-> "settled",
    accountId |-> CashId, loanSettlementAccountId |-> BankId, paymentMethod |-> "",
    categoryId |-> NoId, categoryName |-> ""]}

StepPatches ==
  [amount : {Absent, MaxAmount}, type : {AbsentStr}, loanType : {AbsentStr},
   loanStatus : {AbsentStr}, accountId : {Absent, BankId},
   loanSettlementAccountId : {Absent}, paymentMethod : {AbsentStr},
   categoryId : {Absent}, categoryName : {AbsentStr}]

StepCall(op, step) == [step |-> step] @@ Call(op, NoId, NoPrior)

NextSteps ==
  \/ \E p \in Procs :
       /\ nextId.tx <= MaxTx
       /\ \E input \in StepInputs : beginCreateTransaction(p, input)
       /\ last' = StepCall("createTransaction", "begin")
  \/ \E p \in Procs, id \in TxIds, patch \in StepPatches :
       /\ beginUpdateTransaction(p, id, patch)
       /\ last' = StepCall("updateTransaction", "begin")
  \/ \E p \in Procs, id \in TxIds :
       /\ beginDeleteTransaction(p, id)
       /\ last' = StepCall("deleteTransaction", "begin")
  \/ \E p \in Procs :
       /\ readBalance(p)
       /\ last' = StepCall(calls.run[p].op, "read")
  \/ \E p \in Procs :
       /\ writeBalance(p)
       /\ last' = StepCall(calls.run[p].op, "write")
  \/ \E p \in Procs :
       /\ checkWritten(p)
       /\ last' = StepCall(calls.run[p].op, "check")
  \/ \E p \in Procs :
       /\ persist(p)
       /\ last' = StepCall(calls.run[p].op, "persist")
  \/ \E p \in Procs, from \in {CashId, BankId}, to \in {CashId, BankId} :
       /\ nextId.transfer <= MaxTransfers
       /\ beginTransfer(p, from, to, Decimal(1))
       /\ last' = StepCall("transferBetweenAccounts", "begin")
  \/ \E p \in Procs :
       /\ readTo(p)
       /\ last' = StepCall("transferBetweenAccounts", "readTo")
  \/ \E p \in Procs :
       /\ debit(p)
       /\ last' = StepCall("transferBetweenAccounts", "debit")
  \/ \E p \in Procs :
       /\ checkDebit(p)
       /\ last' = StepCall("transferBetweenAccounts", "checkDebit")
  \/ \E p \in Procs :
       /\ credit(p)
       /\ last' = StepCall("transferBetweenAccounts", "credit")
  \/ \E p \in Procs :
       /\ checkCredit(p)
       /\ last' = StepCall("transferBetweenAccounts", "checkCredit")
  \/ \E p \in Procs :
       /\ addTransfer(p)
       /\ last' = StepCall("transferBetweenAccounts", "add")
  \/ \E id \in DOMAIN accounts :
       /\ deleteAccount(id)
       /\ last' = StepCall("deleteAccount", "begin")

SpecSteps == InitTx /\ [][NextSteps]_vars

(* The balance write of call p is the step that takes it from "write" to   *)
(* "check"; what it read it read at its step from "read" to "write".       *)
WritesBalance(p) ==
  /\ calls.run[p].pc = "write"
  /\ calls'.run[p].pc = "check"
  /\ Has(accounts, Head(calls.run[p].jobs).account)

AllReturned == \A p \in Procs : calls.run[p] = Idle

Booked(a) ==
  opening[a] + LedgerSum(transactions, DOMAIN transactions, a)
             + TransferSum(transfers, DOMAIN transfers, a)

(* C25: the read-modify-write of a balance in createTransaction,           *)
(* updateTransaction, deleteTransaction and transferBetweenAccounts is not *)
(* atomic.  A balance write stores the balance its call read earlier plus  *)
(* the call's delta, whatever another call has written to the account      *)
(* since, and a transfer writes the two balances it computed when it read  *)
(* the accounts: when two calls on one account interleave, a state is      *)
(* reached after both have returned in which the balance is not the        *)
(* initial balance plus both deltas.                                       *)
C25_WriteUsesEarlierRead ==
  [][\A p \in Procs :
       /\ WritesBalance(p)
            => BalanceOf(accounts'[Head(calls.run[p].jobs).account])
                 = calls.run[p].read + Head(calls.run[p].jobs).delta
       /\ (calls.run[p].pc = "debit" /\ calls'.run[p].pc = "debited"
             /\ Has(accounts, calls.run[p].fromAccountId))
            => BalanceOf(accounts'[calls.run[p].fromAccountId])
                 = calls.run[p].read - calls.run[p].amount
       /\ (calls.run[p].pc = "credit" /\ calls'.run[p].pc = "credited"
             /\ Has(accounts, calls.run[p].toAccountId))
            => BalanceOf(accounts'[calls.run[p].toAccountId])
                 = calls.run[p].toBalance]_vars

(* Two createTransaction calls, and no other call, have run and returned;  *)
(* both rows are stored and no account was deleted, and the balance of     *)
(* 'Cash' is not its opening balance plus the deltas of the two rows: one  *)
(* update was lost.                                                        *)
C25_Witness ==
  /\ AllReturned
  /\ err = "none"
  /\ calls.begun = 2
  /\ DOMAIN transactions = 1..2
  /\ DOMAIN accounts = {CashId, BankId}
  /\ transfers = EmptyTable
  /\ BalanceOf(accounts[CashId]) # Booked(CashId)

(* C26: when the write of the destination balance of                       *)
(* transferBetweenAccounts fails after the write of the source balance     *)
(* succeeded (the destination account was deleted between the existence    *)
(* check and the write), the call raises an error and nothing is rolled    *)
(* back: the failing step changes no account, so the source stays debited  *)
(* and the destination is not credited, and no transfer is persisted.      *)
C26_NoRollback ==
  [][\A p \in Procs :
       ( /\ calls.run[p].pc = "credited"
         /\ calls'.run[p] # calls.run[p]
         /\ ~Has(accounts, calls.run[p].toAccountId) )
       => /\ err' = "Account not found"
          /\ calls'.run[p] = Idle
          /\ accounts' = accounts
          /\ transfers' = transfers
          /\ nextId' = nextId]_vars

(* One transfer of 1 from 'Bank' to 'Cash' was begun, 'Cash' was deleted   *)
(* after the transfer had read it, and the transfer has failed: 'Bank' is  *)
(* 1 below its opening balance and there is no transfer.                   *)
C26_Witness ==
  /\ last.op = "transferBetweenAccounts"
  /\ last.step = "checkCredit"
  /\ err = "Account not found"
  /\ calls.begun = 1
  /\ AllReturned
  /\ ~Has(accounts, CashId)
  /\ BalanceOf(accounts[BankId]) = opening[BankId] - 1
  /\ transactions = EmptyTable
  /\ transfers = EmptyTable
====
